---- MODULE Spec2Model ----
(***************************************************************************)
(* Model of the catalyst_agent planning core:                              *)
(*   - Plan / PlanStep (planning/base.py),                                 *)
(*   - PlanningEngine.execute_plan / execute_next_step and placeholder     *)
(*     resolution (planning/engine.py),                                    *)
(*   - AgentExecutor.execute_step with handler recovery and the LM         *)
(*     code-fix path (agent.py),                                           *)
(*   - ToolRegistry.execute_tool / find_error_handler /                    *)
(*     create_recovery_step (tools/base.py),                               *)
(*   - LLMManager.reevaluate_plan's return contract (llm.py),              *)
(*   - ToolRegistry.register_tool / get_tool / get_all_tools               *)
(*     (tools/base.py),                                                    *)
(*   - EventQueue (event_queue.py).                                        *)
(*                                                                         *)
(* Note on the executor call.  PlanningEngine calls                        *)
(* executor.execute_step(step, context, executed_steps) as declared by the *)
(* Executor interface (engine.py:29), while AgentExecutor.execute_step     *)
(* (agent.py:140) declares only (step, context).  The model binds the      *)
(* engine's call to the body of AgentExecutor.execute_step, which does not *)
(* read executed_steps; the arity difference itself is not modelled.       *)
(***************************************************************************)
EXTENDS Integers, Sequences, FiniteSets, TLC

(***************************************************************************)
(* Bounds of the model.                                                    *)
(***************************************************************************)
MaxSteps == 2

\* number of re-plans of one plan that adopt an adjusted plan
MaxReplans == 2

\* number of register_tool calls on one registry
MaxRegistered == 3

\* the capacity an EventQueue is constructed with, and the number of events
\* published to it
max_size == 2

MaxEvents == 4

(***************************************************************************)
(* Python values.  Every value has the same record shape so that values of *)
(* different Python types can be compared.  A string is a sequence of      *)
(* tokens: a literal piece of text, or a placeholder "{step_N_result}".    *)
(***************************************************************************)
Lit(c) == [k |-> "lit", n |-> 0, c |-> c]

Ph(i) == [k |-> "ph", n |-> i, c |-> ""]

Null == [t |-> "null", n |-> 0, toks |-> <<>>, keys |-> <<>>, kids |-> <<>>]

IntV(i) == [t |-> "int", n |-> i, toks |-> <<>>, keys |-> <<>>, kids |-> <<>>]

BoolV(b) == [t |-> "bool", n |-> IF b THEN 1 ELSE 0, toks |-> <<>>, keys |-> <<>>, kids |-> <<>>]

Str(toks) == [t |-> "str", n |-> 0, toks |-> toks, keys |-> <<>>, kids |-> <<>>]

ListV(kids) == [t |-> "list", n |-> 0, toks |-> <<>>, keys |-> <<>>, kids |-> kids]

MapV(keys, kids) == [t |-> "dict", n |-> 0, toks |-> <<>>, keys |-> keys, kids |-> kids]

EmptyMap == MapV(<<>>, <<>>)

S(c) == Str(<<Lit(c)>>)

\* str.join over token sequences
RECURSIVE Join(_, _)
Join(sep, ss) ==
    IF ss = <<>> THEN <<>>
    ELSE IF Len(ss) = 1 THEN ss[1]
    ELSE ss[1] \o sep \o Join(sep, Tail(ss))

\* json.dumps(value) as text
RECURSIVE JsonDumps(_)
JsonDumps(v) ==
    CASE v.t = "null" -> <<Lit("null")>>
      [] v.t = "bool" -> <<Lit(IF v.n = 1 THEN "true" ELSE "false")>>
      [] v.t = "int"  -> <<Lit(ToString(v.n))>>
      [] v.t = "str"  -> <<Lit("\"")>> \o v.toks \o <<Lit("\"")>>
      [] v.t = "list" -> <<Lit("[")>>
                          \o Join(<<Lit(", ")>>, [i \in 1..Len(v.kids) |-> JsonDumps(v.kids[i])])
                          \o <<Lit("]")>>
      [] v.t = "dict" -> <<Lit("{")>>
                          \o Join(<<Lit(", ")>>,
                                  [i \in 1..Len(v.kids) |->
                                      <<Lit("\""), Lit(v.keys[i]), Lit("\""), Lit(": ")>>
                                      \o JsonDumps(v.kids[i])])
                          \o <<Lit("}")>>

\* Python str(value) for the values that reach it (never a dict or a list)
PyStr(v) ==
    CASE v.t = "null" -> <<Lit("None")>>
      [] v.t = "bool" -> <<Lit(IF v.n = 1 THEN "True" ELSE "False")>>
      [] v.t = "int"  -> <<Lit(ToString(v.n))>>
      [] v.t = "str"  -> v.toks
      [] OTHER        -> JsonDumps(v)

\* result_str of engine.py:83
ResultStr(r) == IF r.t \in {"dict", "list"} THEN JsonDumps(r) ELSE PyStr(r)

\* str.replace(placeholder, result_str): every occurrence is replaced
RECURSIVE StrReplace(_, _, _)
StrReplace(toks, ph, rep) ==
    IF toks = <<>> THEN <<>>
    ELSE (IF Head(toks) = ph THEN rep ELSE <<Head(toks)>>) \o StrReplace(Tail(toks), ph, rep)

\* the regex matches of placeholder_pattern.finditer(data), as token positions
Matches(toks) == {i \in 1..Len(toks) : toks[i].k = "ph"}

InRange(n, executed_steps) == 0 <= n - 1 /\ n - 1 < Len(executed_steps)

\* the loop "for match in reversed(matches)" over the positions above i
RECURSIVE ResolveEmbedded(_, _, _, _)
ResolveEmbedded(orig, resolved, i, executed_steps) ==
    IF i = 0 THEN resolved
    ELSE IF orig[i].k # "ph" THEN ResolveEmbedded(orig, resolved, i - 1, executed_steps)
    ELSE IF InRange(orig[i].n, executed_steps)
         THEN ResolveEmbedded(orig,
                              StrReplace(resolved, orig[i],
                                         ResultStr(executed_steps[orig[i].n].result)),
                              i - 1, executed_steps)
         ELSE ResolveEmbedded(orig, resolved, i - 1, executed_steps)

\* ResolveString that gives None for a whole-string placeholder with an invalid index
ResolveStringNoneWhenInvalid(data, executed_steps) ==
    IF Matches(data.toks) = {} THEN data
    ELSE IF Len(data.toks) = 1
         THEN IF InRange(data.toks[1].n, executed_steps)
              THEN executed_steps[data.toks[1].n].result
              ELSE Null
         ELSE Str(ResolveEmbedded(data.toks, data.toks, Len(data.toks), executed_steps))

ResolveString(data, executed_steps) ==
    IF Matches(data.toks) = {} THEN data
    ELSE IF Len(data.toks) = 1
         THEN IF InRange(data.toks[1].n, executed_steps)
              THEN executed_steps[data.toks[1].n].result
              ELSE data
         ELSE Str(ResolveEmbedded(data.toks, data.toks, Len(data.toks), executed_steps))

RECURSIVE _resolve_placeholders(_, _)
_resolve_placeholders(data, executed_steps) ==
    CASE data.t = "str"  -> ResolveString(data, executed_steps)
      [] data.t = "dict" -> MapV(data.keys,
                                 [i \in 1..Len(data.kids) |->
                                     _resolve_placeholders(data.kids[i], executed_steps)])
      [] data.t = "list" -> ListV([i \in 1..Len(data.kids) |->
                                     _resolve_placeholders(data.kids[i], executed_steps)])
      [] OTHER           -> data

(***************************************************************************)
(* PlanStatus, PlanStep and Plan (planning/base.py).                       *)
(***************************************************************************)
PENDING == "pending"

IN_PROGRESS == "in_progress"

COMPLETED == "completed"

FAILED == "failed"

BLOCKED == "blocked"

PlanStatus == {PENDING, IN_PROGRESS, COMPLETED, FAILED, BLOCKED}

\* tool_name None
NoTool == "None"

\* error None (an error text is a sequence of words)
NoError == <<>>

\* PlanStep.__init__: a fresh step is PENDING, without result or error
PlanStep(step_id, description, tool_name, tool_args, depends_on) ==
    [id |-> step_id, description |-> description, tool_name |-> tool_name,
     tool_args |-> tool_args, depends_on |-> depends_on,
     status |-> PENDING, result |-> Null, error |-> NoError]

\* PlanStep.to_dict: the dictionary copy of a step (same fields)
to_dict(step) == step

\* Plan.get_step: index of the first step with this id, 0 when there is none
get_step(steps, step_id) ==
    IF \E i \in 1..Len(steps) : steps[i].id = step_id
    THEN CHOOSE i \in 1..Len(steps) :
            /\ steps[i].id = step_id
            /\ \A j \in 1..(i - 1) : steps[j].id # step_id
    ELSE 0

\* update_status with the IN_PROGRESS test moved before the FAILED test
update_status_in_progress_first(steps) ==
    IF steps = <<>> THEN PENDING
    ELSE IF \E i \in 1..Len(steps) : steps[i].status = IN_PROGRESS THEN IN_PROGRESS
    ELSE IF \E i \in 1..Len(steps) : steps[i].status = FAILED THEN FAILED
    ELSE IF \A i \in 1..Len(steps) : steps[i].status = COMPLETED THEN COMPLETED
    ELSE PENDING

\* Plan.update_status: the plan status computed from the steps
update_status(steps) ==
    IF steps = <<>> THEN PENDING
    ELSE IF \E i \in 1..Len(steps) : steps[i].status = FAILED THEN FAILED
    ELSE IF \A i \in 1..Len(steps) : steps[i].status = COMPLETED THEN COMPLETED
    ELSE IF \E i \in 1..Len(steps) : steps[i].status = IN_PROGRESS THEN IN_PROGRESS
    ELSE IF \E i \in 1..Len(steps) : steps[i].status = PENDING THEN PENDING
    ELSE IN_PROGRESS

\* dependencies_met that lets a dependency on an unknown id pass
dependencies_met_unknown_passes(steps, step) ==
    \A k \in 1..Len(step.depends_on) :
        LET dep_step == get_step(steps, step.depends_on[k])
        IN  dep_step = 0 \/ steps[dep_step].status = COMPLETED

\* the inner loop of get_next_executable_step over step.depends_on
dependencies_met(steps, step) ==
    \A k \in 1..Len(step.depends_on) :
        LET dep_step == get_step(steps, step.depends_on[k])
        IN  dep_step # 0 /\ steps[dep_step].status = COMPLETED

\* Plan.get_next_executable_step: index of the step returned, 0 for None
get_next_executable_step(steps) ==
    IF \E i \in 1..Len(steps) : steps[i].status = PENDING /\ dependencies_met(steps, steps[i])
    THEN CHOOSE i \in 1..Len(steps) :
            /\ steps[i].status = PENDING /\ dependencies_met(steps, steps[i])
            /\ \A j \in 1..(i - 1) :
                  ~(steps[j].status = PENDING /\ dependencies_met(steps, steps[j]))
    ELSE 0

(***************************************************************************)
(* The Plan of the older package (src/core/planning/base.py), whose        *)
(* update_status reports BLOCKED and never reports PENDING for a plan with *)
(* steps.                                                                  *)
(***************************************************************************)
\* core Plan._is_step_blocked
core_is_step_blocked(steps, step) ==
    IF step.depends_on = <<>> THEN FALSE
    ELSE \E k \in 1..Len(step.depends_on) :
            LET dep_step == get_step(steps, step.depends_on[k])
            IN  dep_step = 0 \/ steps[dep_step].status # COMPLETED

\* core Plan.update_status
core_update_status(steps) ==
    IF steps = <<>> THEN PENDING
    ELSE IF \A i \in 1..Len(steps) : steps[i].status = COMPLETED THEN COMPLETED
    ELSE IF \E i \in 1..Len(steps) : steps[i].status = FAILED THEN FAILED
    ELSE IF \E i \in 1..Len(steps) : steps[i].status = IN_PROGRESS THEN IN_PROGRESS
    ELSE IF \A i \in 1..Len(steps) :
                steps[i].status = PENDING => core_is_step_blocked(steps, steps[i])
    THEN BLOCKED
    ELSE IN_PROGRESS

(***************************************************************************)
(* ToolResult and ToolRegistry (tools/base.py).  An error text is a        *)
(* sequence of words; a pattern is contained in it when it occurs as a     *)
(* contiguous run of words.                                                *)
(***************************************************************************)
\* ToolResult(success, data, error)
ToolResult(success, data, error) == [success |-> success, data |-> data, error |-> error]

success_result(data) == ToolResult(TRUE, data, NoError)

error_result(error) == ToolResult(FALSE, Null, error)

\* "pattern in error_message" of find_error_handler
Contains(pattern, error_message) ==
    \E i \in 0..(Len(error_message) - Len(pattern)) :
        \A k \in 1..Len(pattern) : error_message[i + k] = pattern[k]

\* the quoted module names an error text can carry, and the name inside the quotes
Quoted == {"'foo'", "'bar'"}

Unquote(q) == IF q = "'foo'" THEN "foo" ELSE "bar"

\* re.search(lead + " ['\"]([^'\"]+)['\"]", error_message): position of the first
\* match, 0 when there is none
Search(lead, error_message) ==
    LET hits == {i \in 1..(Len(error_message) - 1) :
                    error_message[i] = lead /\ error_message[i + 1] \in Quoted}
    IN  IF hits = {} THEN 0 ELSE CHOOSE i \in hits : \A j \in hits : i <= j

\* PackageInstallerTool.get_error_handlers.module_not_found_arg_generator
module_not_found_arg_generator(error_message, failed_step) ==
    LET match1 == Search("No module named", error_message)
        match2 == Search("Missing optional dependency", error_message)
        module_name == IF match1 # 0 THEN Unquote(error_message[match1 + 1])
                       ELSE IF match2 # 0 THEN Unquote(error_message[match2 + 1])
                       ELSE "unknown_package_from_error"
    IN  MapV(<<"packages", "upgrade">>, <<ListV(<<S(module_name)>>), BoolV(FALSE)>>)

\* handler_info['arg_generator'](error_message, failed_step): the callable of the
\* package installer's handlers, or one that repeats the failed step's arguments
arg_generator(name, error_message, failed_step) ==
    IF name = "module_not_found_arg_generator"
    THEN module_not_found_arg_generator(error_message, failed_step)
    ELSE failed_step.tool_args

\* PackageInstallerTool.get_error_handlers: pattern -> handler, in dict order
get_error_handlers ==
    << [pattern |-> <<"ModuleNotFoundError:", "No module named">>,
        tool |-> "package_installer",
        description |-> <<"Install", "missing", "module">>,
        arg_generator |-> "module_not_found_arg_generator"],
       [pattern |-> <<"ImportError:", "No module named">>,
        tool |-> "package_installer",
        description |-> <<"Install", "missing", "module">>,
        arg_generator |-> "module_not_found_arg_generator"],
       [pattern |-> <<"ImportError:", "Missing optional dependency">>,
        tool |-> "package_installer",
        description |-> <<"Install", "missing", "dependency">>,
        arg_generator |-> "module_not_found_arg_generator"] >>

\* find_error_handler that keeps looking and returns the last matching handler
find_error_handler_last_match(error_handlers, error_message) ==
    IF error_message = <<>> THEN 0
    ELSE LET hits == {i \in 1..Len(error_handlers) :
                         Contains(error_handlers[i].pattern, error_message)}
         IN  IF hits = {} THEN 0 ELSE CHOOSE i \in hits : \A j \in hits : j <= i

\* ToolRegistry.find_error_handler: index into the registered handlers, 0 for None
find_error_handler(error_handlers, error_message) ==
    IF error_message = <<>> THEN 0
    ELSE LET hits == {i \in 1..Len(error_handlers) :
                         Contains(error_handlers[i].pattern, error_message)}
         IN  IF hits = {} THEN 0 ELSE CHOOSE i \in hits : \A j \in hits : i <= j

\* ToolRegistry.create_recovery_step: the recovery step, or a record with
\* found = FALSE for None
create_recovery_step(error_handlers, error_message, failed_step) ==
    LET handler == find_error_handler(error_handlers, error_message)
    IN  IF handler = 0
           \/ error_handlers[handler].tool = NoTool
           \/ error_handlers[handler].arg_generator = NoTool
        THEN [found |-> FALSE, description |-> <<>>, tool_name |-> NoTool,
              tool_args |-> EmptyMap]
        ELSE [found |-> TRUE,
              description |-> error_handlers[handler].description,
              tool_name |-> error_handlers[handler].tool,
              tool_args |-> arg_generator(error_handlers[handler].arg_generator,
                                          error_message, failed_step)]

\* self._tools[tool.name] = tool on the dict kept as the sequence of its values
\* in insertion order: an existing key keeps its place, a new key goes to the end
SetTool(reg_tools, tool) ==
    IF \E i \in 1..Len(reg_tools) : reg_tools[i].name = tool.name
    THEN [i \in 1..Len(reg_tools) |->
             IF reg_tools[i].name = tool.name THEN tool ELSE reg_tools[i]]
    ELSE Append(reg_tools, tool)

\* self._error_handlers[error_pattern] = handler_info, likewise
SetHandler(error_handlers, handler_info) ==
    IF \E i \in 1..Len(error_handlers) : error_handlers[i].pattern = handler_info.pattern
    THEN [i \in 1..Len(error_handlers) |->
             IF error_handlers[i].pattern = handler_info.pattern THEN handler_info
             ELSE error_handlers[i]]
    ELSE Append(error_handlers, handler_info)

\* the loop of register_tool over tool.get_error_handlers().items(), the first k
\* handlers done
RECURSIVE RegisterHandlers(_, _, _)
RegisterHandlers(error_handlers, handlers, k) ==
    IF k = 0 THEN error_handlers
    ELSE SetHandler(RegisterHandlers(error_handlers, handlers, k - 1), handlers[k])

\* ToolRegistry.register_tool: the dicts _tools and _error_handlers afterwards.
\* A tool without get_error_handlers has handlers = << >>.
register_tool(reg_tools, error_handlers, tool) ==
    [_tools |-> SetTool(reg_tools, tool),
     _error_handlers |-> RegisterHandlers(error_handlers, tool.handlers, Len(tool.handlers))]

\* ToolRegistry.get_tool: the tool object, None when the name is not registered
NoToolObject == [name |-> NoTool, id |-> NoTool, handlers |-> <<>>]

get_tool(reg_tools, name) ==
    IF \E i \in 1..Len(reg_tools) : reg_tools[i].name = name
    THEN reg_tools[CHOOSE i \in 1..Len(reg_tools) : reg_tools[i].name = name]
    ELSE NoToolObject

\* ToolRegistry.get_all_tools
get_all_tools(reg_tools) == reg_tools

\* one tool invocation as seen from outside: the tool, the arguments it got, how
\* it ended ("ok", "fail" or "raise") and the error text it gave
Call(name, args, outcome) ==
    [tool_name |-> name, tool_args |-> args, kind |-> outcome.kind, error |-> outcome.error]

\* ToolRegistry.execute_tool(name, **kwargs) when the tool's execute behaves as
\* outcome says (kind "ok", "fail" or "raise"): the ToolResult returned, whether an
\* exception left the call, the events published, the tool invocations made
execute_tool(tools, name, kwargs, outcome) ==
    IF name \notin tools
    THEN [result |-> error_result(<<"Tool", name, "not found">>), raised |-> FALSE,
          events |-> <<>>, calls |-> <<>>]
    ELSE IF outcome.kind = "raise"
    THEN [result |-> error_result(outcome.error), raised |-> TRUE,
          events |-> <<"tool_input">>, calls |-> <<Call(name, kwargs, outcome)>>]
    ELSE [result |-> ToolResult(outcome.kind = "ok", outcome.data, outcome.error),
          raised |-> FALSE,
          events |-> <<"tool_input", "tool_output">>, calls |-> <<Call(name, kwargs, outcome)>>]

(***************************************************************************)
(* AgentExecutor.execute_step (agent.py).                                  *)
(***************************************************************************)
\* dict helpers on a MapV value
HasKey(m, key) == \E i \in 1..Len(m.keys) : m.keys[i] = key

GetKey(m, key) == m.kids[CHOOSE i \in 1..Len(m.keys) : m.keys[i] = key]

SetKey(m, key, v) ==
    MapV(m.keys, [i \in 1..Len(m.kids) |-> IF m.keys[i] = key THEN v ELSE m.kids[i]])

\* str.lower() on the words descriptions are made of
LowerWord(w) ==
    CASE w = "Run"   -> "run"
      [] w = "RUN"   -> "run"
      [] w = "Write" -> "write"
      [] w = "Think" -> "think"
      [] OTHER       -> w

Lower(description) == [i \in 1..Len(description) |-> LowerWord(description[i])]

generation_keywords ==
    {"generate", "create", "tell", "write", "compose", "explain", "answer", "provide",
     "describe"}

is_generation_step(description) ==
    \E i \in 1..Len(description) : Lower(description)[i] \in generation_keywords

\* the code fence markers of a markdown answer: three backquotes followed by
\* "python", and three backquotes alone
FencePython == Lit("<fence>python")

Fence == Lit("<fence>")

\* the text between the first marker and the next code fence: the expression
\* fixed_code.split(marker)[1].split(fence)[0]
IsFence(tok) == tok \in {FencePython, Fence}

RECURSIVE UpToFence(_)
UpToFence(toks) ==
    IF toks = <<>> \/ IsFence(Head(toks)) THEN <<>>
    ELSE <<Head(toks)>> \o UpToFence(Tail(toks))

RECURSIVE AfterFirst(_, _)
AfterFirst(markers, toks) ==
    IF toks = <<>> THEN <<>>
    ELSE IF Head(toks) \in markers THEN Tail(toks)
    ELSE AfterFirst(markers, Tail(toks))

\* agent.py:221-225: the code extracted from the LM's answer
ExtractCode(fixed_code) ==
    IF \E i \in 1..Len(fixed_code) : fixed_code[i] = FencePython
    THEN UpToFence(AfterFirst({FencePython}, fixed_code))
    ELSE IF \E i \in 1..Len(fixed_code) : IsFence(fixed_code[i])
    THEN UpToFence(AfterFirst({FencePython, Fence}, fixed_code))
    ELSE fixed_code

\* agent.py:234-245: store the result of the last tool invocation in the step
StoreResult(step, result, calls, events, lm_fix) ==
    [step    |-> [step EXCEPT !.result = IF result.success THEN result.data ELSE Null,
                              !.error  = IF ~result.success THEN result.error ELSE NoError],
     success |-> result.success,
     calls   |-> calls, events |-> events, lm_fix |-> lm_fix, lm_gen |-> 0]

\* agent.py:272-283: an exception left a tool invocation
Caught(step, r, calls, events, lm_fix) ==
    [step    |-> [step EXCEPT !.error = r.result.error],
     success |-> FALSE,
     calls   |-> calls, events |-> events, lm_fix |-> lm_fix, lm_gen |-> 0]

\* has_code without the isinstance test
has_code_of_any_type(step) == HasKey(step.tool_args, "code")

\* agent.py:201: the step carries a string argument named code
has_code(step) ==
    HasKey(step.tool_args, "code") /\ GetKey(step.tool_args, "code").t = "str"

\* agent.py:169-173: the failed first invocation r1 has a recovery step
HasRecovery(error_handlers, step, r1) ==
    /\ ~r1.raised /\ ~r1.result.success /\ r1.result.error # NoError
    /\ create_recovery_step(error_handlers, r1.result.error, to_dict(step)).found

\* agent.py:199-201: the failed first invocation r1 leads to the LM code fix
HasCodeFix(error_handlers, step, r1) ==
    /\ ~r1.raised /\ ~r1.result.success /\ r1.result.error # NoError
    /\ ~create_recovery_step(error_handlers, r1.result.error, to_dict(step)).found
    /\ has_code(step)

\* RecoverAndRetry that retries the step whether or not the recovery succeeded
RecoverAndRetryAlways(tools, step, r1, recovery_step, o2, o3) ==
    LET r2 == execute_tool(tools, recovery_step.tool_name, recovery_step.tool_args, o2)
        c2 == r1.calls \o r2.calls
        e2 == r1.events \o r2.events
        o  == IF o3.kind = "unused" THEN o2 ELSE o3
    IN  IF r2.raised THEN Caught(step, r2, c2, e2, 0)
        ELSE LET r3 == execute_tool(tools, step.tool_name, step.tool_args, o)
             IN  IF r3.raised THEN Caught(step, r3, c2 \o r3.calls, e2 \o r3.events, 0)
                 ELSE StoreResult(step, r3.result, c2 \o r3.calls, e2 \o r3.events, 0)

\* agent.py:175-198: run the recovery step and, if it succeeds, retry the step
RecoverAndRetry(tools, step, r1, recovery_step, o2, o3) ==
    LET r2 == execute_tool(tools, recovery_step.tool_name, recovery_step.tool_args, o2)
        c2 == r1.calls \o r2.calls
        e2 == r1.events \o r2.events
    IN  IF r2.raised THEN Caught(step, r2, c2, e2, 0)
        ELSE IF r2.result.success
        THEN LET r3 == execute_tool(tools, step.tool_name, step.tool_args, o3)
             IN  IF r3.raised THEN Caught(step, r3, c2 \o r3.calls, e2 \o r3.events, 0)
                 ELSE StoreResult(step, r3.result, c2 \o r3.calls, e2 \o r3.events, 0)
        ELSE StoreResult(step, r1.result, c2, e2, 0)

\* FixAndRetry that asks for a second fix and retries again when the retry fails
FixAndRetryAgain(tools, step, r1, fix, o3) ==
    LET fixed_code == ExtractCode(fix)
        fixed_step == [step EXCEPT !.tool_args = SetKey(@, "code", Str(fixed_code))]
        r3 == execute_tool(tools, step.tool_name, fixed_step.tool_args, o3)
        r4 == execute_tool(tools, step.tool_name, fixed_step.tool_args, o3)
    IN  IF r3.raised
        THEN Caught(fixed_step, r3, r1.calls \o r3.calls, r1.events \o r3.events, 1)
        ELSE IF r3.result.success
        THEN StoreResult(fixed_step, r3.result, r1.calls \o r3.calls,
                         r1.events \o r3.events, 1)
        ELSE StoreResult(fixed_step, r4.result, r1.calls \o r3.calls \o r4.calls,
                         r1.events \o r3.events \o r4.events, 2)

\* agent.py:201-232: ask the LM for fixed code, replace the argument, retry
FixAndRetry(tools, step, r1, fix, o3) ==
    LET fixed_code == ExtractCode(fix)
        fixed_step == [step EXCEPT !.tool_args = SetKey(@, "code", Str(fixed_code))]
        r3 == execute_tool(tools, step.tool_name, fixed_step.tool_args, o3)
    IN  IF r3.raised
        THEN Caught(fixed_step, r3, r1.calls \o r3.calls, r1.events \o r3.events, 1)
        ELSE StoreResult(fixed_step, r3.result, r1.calls \o r3.calls,
                         r1.events \o r3.events, 1)

\* agent.py:247-270: a step without a tool
LanguageStep(step, gen) ==
    LET response == IF is_generation_step(step.description) THEN gen ELSE <<>>
    IN  [step    |-> [step EXCEPT !.result = IF response # <<>> THEN Str(response)
                                             ELSE S("Step completed successfully")],
         success |-> TRUE,
         calls   |-> <<>>, events |-> <<>>, lm_fix |-> 0,
         lm_gen  |-> IF is_generation_step(step.description) THEN 1 ELSE 0]

\* AgentExecutor.execute_step.  o1, o2, o3: how the tool behaves in the first
\* invocation, in the recovery invocation and in the retry; fix: the LM's answer
\* to the fix prompt; gen: the LM's answer for a generation step.
execute_step(tools, error_handlers, step, o1, o2, o3, fix, gen) ==
    IF step.tool_name # NoTool
    THEN LET r1 == execute_tool(tools, step.tool_name, step.tool_args, o1)
         IN  IF r1.raised THEN Caught(step, r1, r1.calls, r1.events, 0)
             ELSE IF HasRecovery(error_handlers, step, r1)
             THEN RecoverAndRetry(tools, step, r1,
                                  create_recovery_step(error_handlers, r1.result.error,
                                                       to_dict(step)),
                                  o2, o3)
             ELSE IF HasCodeFix(error_handlers, step, r1)
             THEN FixAndRetry(tools, step, r1, fix, o3)
             ELSE StoreResult(step, r1.result, r1.calls, r1.events, 0)
    ELSE LanguageStep(step, gen)

(***************************************************************************)
(* State of one PlanningEngine with its executor, registry and LM manager. *)
(***************************************************************************)
VARIABLES
    hasLlm,         \* the engine was given an llm_manager offering reevaluate_plan
    tools,          \* ToolRegistry._tools: the registered tool names
    errorHandlers,  \* ToolRegistry._error_handlers, in registration order
    steps,          \* current_plan.steps
    planStatus,     \* current_plan.status
    executed,       \* PlanningEngine.executed_steps
    pc,             \* position of execute_plan: "idle", "loop", "exec", "post", "done"
    cur,            \* index in steps of the step handed to the executor
    sent,           \* the last dispatch: arguments before and after resolution
    outcome,        \* what the last execute_step call did and returned
    returned,       \* what the last execute_next_step call returned
    ret,            \* what execute_plan returned: "none" while running
    events,         \* the events published on the event queue
    nextId,         \* number of uuids generated by plan reconstruction
    replans,        \* number of re-plans that adopted an adjusted plan
    registered,     \* ToolRegistry._tools: the tool objects, in dict order
    log,            \* the tool objects register_tool was called with, in call order
    lastCall,       \* the last query of the registry or the event queue and its result
    queue,          \* EventQueue.queue: the events held, oldest first
    published,      \* the events whose add_* call has returned, in call order
    dequeued,       \* the events taken from EventQueue.queue, in the order taken
    producer,       \* the thread that publishes: ready, or blocked inside put
    entries,        \* ShortTermMemory.entries
    entry_map,      \* ShortTermMemory.entry_map: the entries it indexes by id
    added,          \* the entries whose add has returned, in that order
    writers,        \* the threads inside ShortTermMemory.add: position, entry, oldest
    snapshot,       \* what the last get_conversation_history returned
    config,         \* AgentConfig: planning_enabled, and whether metadata has current_date
    reevaluations,  \* the calls of llm_manager.reevaluate_plan so far: their arguments
    objs,           \* for each position of steps, the PlanStep object that stands there
    dispatched      \* the PlanStep objects handed to executor.execute_step, in order

vars == <<hasLlm, tools, errorHandlers, steps, planStatus, executed, pc, cur, sent,
          outcome, returned, ret, events, nextId, replans, reevaluations, objs, dispatched,
          registered, log, lastCall,
          queue, published, dequeued, producer, entries, entry_map, added, writers,
          snapshot, config>>

\* the engine's variables, and the variables of the registry and the event queue
\* taken on their own
engine == <<hasLlm, steps, planStatus, executed, pc, cur, sent, outcome, returned, ret,
            events, nextId, replans,
                   reevaluations, objs, dispatched>>

\* the variables of the memory and the configuration of the agent
memory == <<entries, entry_map, added, writers, snapshot, config>>

aside == <<registered, log, lastCall, queue, published, dequeued, producer, memory>>

\* what no step of execute_plan changes
fixed == <<aside, hasLlm, tools, errorHandlers>>

(***************************************************************************)
(* The inputs the model draws from.                                        *)
(***************************************************************************)
\* what a tool's execute may do: return data, return an error, raise
Results == {S("hello"), Null, ListV(<<S("a"), IntV(5)>>)}

\* the error texts of failing tools (every tool of the repository gives a failure
\* a non-empty error text)
Errors ==
    {<<"ModuleNotFoundError:", "No module named", "'foo'">>,
     <<"Error:", "ImportError:", "Missing optional dependency", "'bar'", "needed">>,
     <<"SyntaxError:", "invalid syntax">>}

Outcomes ==
    {[kind |-> "ok", data |-> d, error |-> NoError] : d \in Results}
    \cup {[kind |-> "fail", data |-> Null, error |-> e] : e \in Errors}
    \cup {[kind |-> "raise", data |-> Null, error |-> <<"TypeError:", "unexpected argument">>]}

NoOutcome == [kind |-> "unused", data |-> Null, error |-> NoError]

\* answers of the LM to the fix prompt
FixAnswers ==
    {<<FencePython, Lit("c1"), Fence>>,
     <<Lit("Here it is:"), Fence, Lit("c1"), Fence, Lit("Good luck")>>,
     <<Lit("c1")>>}

\* answers of the LM for a generation step
GenAnswers == {<<Lit("a poem")>>, <<>>}

\* the steps plans are made of: description, tool, arguments
StepTemplates ==
    {[description |-> <<"Run", "code">>, tool_name |-> "code_runner",
      tool_args |-> MapV(<<"code">>, <<S("c0")>>), depends_on |-> <<>>],
     [description |-> <<"RUN", "code">>, tool_name |-> "code_runner",
      tool_args |-> MapV(<<"code">>, <<IntV(5)>>), depends_on |-> <<>>],
     [description |-> <<"Run", "code">>, tool_name |-> "echo",
      tool_args |-> MapV(<<"text">>, <<Str(<<Ph(1)>>)>>), depends_on |-> <<"s1">>],
     [description |-> <<"Echo">>, tool_name |-> "echo",
      tool_args |-> MapV(<<"text", "more">>,
                         <<Str(<<Lit("got "), Ph(1), Lit(" and "), Ph(2)>>),
                           ListV(<<Str(<<Ph(9)>>), Str(<<Ph(0), Lit("!")>>),
                                   MapV(<<"k">>, <<Str(<<Ph(1)>>)>>)>>)>>),
      depends_on |-> <<>>],
     [description |-> <<"Write", "poem">>, tool_name |-> NoTool, tool_args |-> EmptyMap,
      depends_on |-> <<>>],
     [description |-> <<"Think">>, tool_name |-> NoTool, tool_args |-> EmptyMap,
      depends_on |-> <<"s2", "nowhere">>],
     [description |-> <<"Fetch">>, tool_name |-> "ghost",
      tool_args |-> MapV(<<"code">>, <<S("c0")>>), depends_on |-> <<>>]}

InitialIds == <<"s1", "s2", "s3", "s4">>

\* tool objects: the name, the identity of the object, what its
\* get_error_handlers() returns (<< >> for a tool without the method)
ToolObject(name, id, handlers) == [name |-> name, id |-> id, handlers |-> handlers]

PackageInstallerTool == ToolObject("package_installer", "t1", get_error_handlers)

\* the registry of the engine's agent after its tools were registered
AgentTools ==
    <<ToolObject("code_runner", "t0", <<>>), PackageInstallerTool,
      ToolObject("echo", "t3", <<>>)>>

NoCall == [op |-> "none"]

NoEvent == [id |-> 0, event_type |-> "none"]

Ready == [state |-> "ready", event |-> NoEvent]

\* no memory entry (what get returns for an unknown id)
NoEntry == [id |-> "", entry_type |-> "none", sender |-> ""]

\* no thread is inside ShortTermMemory.add
NoWriters == <<>>

\* AgentConfig() (config.py:13-39): planning is enabled, metadata is empty
AgentConfig == [planning_enabled |-> TRUE, current_date |-> FALSE]

\* MemoryManager.__init__ and ShortTermMemory.__init__ of the agent
InitMemory ==
    /\ entries = <<>>
    /\ entry_map = {}
    /\ added = <<>>
    /\ writers = NoWriters
    /\ snapshot = <<>>
    /\ config = AgentConfig

\* plans of n steps handed to execute_plan
PlansOfLength(n) ==
    {[i \in 1..n |-> PlanStep(InitialIds[i], tpl[i].description, tpl[i].tool_name,
                               tpl[i].tool_args, tpl[i].depends_on)] :
        tpl \in [1..n -> StepTemplates]}

Plans == UNION {PlansOfLength(n) : n \in 0..MaxSteps}

NoStep == PlanStep("", <<>>, NoTool, EmptyMap, <<>>)

\* executed_steps of an engine that is handed a plan: empty after __init__
\* (engine.py:55), or what the plan before left in it
EarlierExecuted ==
    {<<>>,
     <<[PlanStep("s0", <<"Echo">>, "echo", MapV(<<"text">>, <<S("before")>>), <<>>)
           EXCEPT !.status = COMPLETED, !.result = S("hello")]>>}

NoDispatch == [step_id |-> "", raw_args |-> EmptyMap, tool_args |-> EmptyMap, executed |-> <<>>]

NoExecution ==
    [success |-> FALSE, calls |-> <<>>, lm_fix |-> 0, lm_gen |-> 0, fix |-> <<>>,
     before |-> NoStep]

NoReturn == [kind |-> "nothing", step |-> 0, step_id |-> "", status |-> PENDING]

Init ==
    /\ hasLlm \in BOOLEAN
    /\ tools = {"code_runner", "package_installer", "echo"}
    /\ errorHandlers = get_error_handlers
    /\ steps \in Plans
    /\ planStatus = PENDING
    /\ executed \in EarlierExecuted
    /\ pc = "idle"
    /\ cur = 0
    /\ sent = NoDispatch
    /\ outcome = NoExecution
    /\ returned = NoReturn
    /\ ret = "none"
    /\ events = <<>>
    /\ nextId = 0
    /\ replans = 0
    /\ reevaluations = <<>>
    /\ objs = [i \in 1..Len(steps) |-> i]
    /\ dispatched = <<>>
    /\ registered = AgentTools
    /\ log = AgentTools
    /\ lastCall = NoCall
    /\ queue = <<>>
    /\ published = <<>>
    /\ dequeued = <<>>
    /\ producer = Ready
    /\ InitMemory

(***************************************************************************)
(* LLMManager.reevaluate_plan (llm.py) and the plan reconstruction of      *)
(* PlanningEngine.execute_next_step (engine.py:183-260).                   *)
(***************************************************************************)
\* a key that is missing from a step dictionary of the LM
Missing == ""

\* Plan.to_dict as far as the engine reads the returned dictionary: the steps
\* are under the key "steps", there is no key "plan"
PlanToDict(plan_steps) == [steps |-> plan_steps, plan |-> <<>>, has_plan |-> FALSE]

\* LLMManager.reevaluate_plan: answer.adjust is plan_needs_adjustment of a
\* parsed answer; an LM error or an unparsable answer is answer.adjust = FALSE
reevaluate_plan(current_plan, executed_steps, answer) ==
    IF answer.adjust
    THEN [steps |-> <<>>, plan |-> executed_steps \o answer.updated_plan, has_plan |-> TRUE]
    ELSE current_plan

\* updated_plan_dict.get('plan', [])
NewPlanStepsData(updated_plan_dict) ==
    IF updated_plan_dict.has_plan THEN updated_plan_dict.plan ELSE <<>>

\* current_completed_step_objects: id -> index in steps of the completed step
\* object kept for this id (the last one in plan order), 0 when absent
CompletedObject(plan_steps, step_id) ==
    LET hits == {i \in 1..Len(plan_steps) :
                    plan_steps[i].id = step_id /\ plan_steps[i].status = COMPLETED}
    IN  IF hits = {} THEN 0 ELSE CHOOSE i \in hits : \A j \in hits : j <= i

\* uuid.uuid4(): the n-th generated id
Uuid(n) == "u" \o ToString(n)

\* number of entries among the first k that lack an id
RECURSIVE MissingIds(_, _)
MissingIds(data, k) ==
    IF k = 0 THEN 0
    ELSE MissingIds(data, k - 1) + (IF data[k].id = Missing THEN 1 ELSE 0)

\* engine.py:196-199: the id of entry k
StepId(data, k, n0) ==
    IF data[k].id # Missing THEN data[k].id ELSE Uuid(n0 + MissingIds(data, k))

\* engine.py:207
StatusStr(step_data) == IF step_data.status = Missing THEN PENDING ELSE step_data.status

\* engine.py:218: the entry reuses a completed step object
Reuses(plan_steps, data, k, n0) ==
    /\ CompletedObject(plan_steps, StepId(data, k, n0)) # 0
    /\ StatusStr(data[k]) # PENDING

\* the status a reused object ends with: the one assigned last (engine.py:221)
LastAssigned(plan_steps, data, obj, n0) ==
    LET ks == {k \in 1..Len(data) :
                  Reuses(plan_steps, data, k, n0)
                  /\ CompletedObject(plan_steps, StepId(data, k, n0)) = obj}
    IN  IF ks = {} THEN plan_steps[obj].status
        ELSE StatusStr(data[CHOOSE k \in ks : \A j \in ks : j <= k])

\* engine.py:221: PlanStatus(status_str) raises ValueError for a string that is
\* not the value of a member; the first entry of data at which this happens
\* for a reused completed step, 0 when there is none
RaisesAt(plan_steps, data, n0) ==
    LET ks == {k \in 1..Len(data) :
                  Reuses(plan_steps, data, k, n0) /\ StatusStr(data[k]) \notin PlanStatus}
    IN  IF ks = {} THEN 0 ELSE CHOOSE k \in ks : \A j \in ks : k <= j

\* the step objects of the plan when the ValueError leaves the loop at entry k:
\* the entries before k have assigned their statuses to the objects they reuse,
\* plan.steps itself has not been replaced
StatusesAssignedBefore(plan_steps, data, k, n0) ==
    [i \in 1..Len(plan_steps) |->
        [plan_steps[i] EXCEPT
            !.status = LastAssigned(plan_steps, SubSeq(data, 1, k - 1), i, n0)]]

\* PlanStep.from_dict of the mapped dictionary (engine.py:225-239)
from_dict(step_id, step_data) ==
    [id |-> step_id,
     description |-> IF step_data.description = <<>> THEN <<"No description provided">>
                     ELSE step_data.description,
     tool_name |-> step_data.tool_name,
     tool_args |-> step_data.tool_args,
     depends_on |-> step_data.depends_on,
     status |-> IF StatusStr(step_data) \in PlanStatus THEN StatusStr(step_data) ELSE PENDING,
     result |-> step_data.result,
     error |-> step_data.error]

\* all_new_step_objects
Reconstruct(plan_steps, data, n0) ==
    [k \in 1..Len(data) |->
        IF Reuses(plan_steps, data, k, n0)
        THEN LET obj == CompletedObject(plan_steps, StepId(data, k, n0))
             IN  [plan_steps[obj] EXCEPT !.status = LastAssigned(plan_steps, data, obj, n0)]
        ELSE from_dict(StepId(data, k, n0), data[k])]

\* the largest number a PlanStep object has been given so far
NewestObject(plan_objs, sent_objs) ==
    LET used == {plan_objs[i] : i \in 1..Len(plan_objs)}
                \cup {sent_objs[i] : i \in 1..Len(sent_objs)} \cup {0}
    IN  CHOOSE n \in used : \A k \in used : k <= n

\* number of entries among the first k for which PlanStep.from_dict creates an object
RECURSIVE CreatedObjects(_, _, _, _)
CreatedObjects(plan_steps, data, k, n0) ==
    IF k = 0 THEN 0
    ELSE CreatedObjects(plan_steps, data, k - 1, n0)
         + (IF Reuses(plan_steps, data, k, n0) THEN 0 ELSE 1)

\* the objects of all_new_step_objects: the completed object an entry reuses
\* (engine.py:218-222), or the one PlanStep.from_dict creates (engine.py:236-238)
ReconstructObjs(plan_steps, plan_objs, data, n0, newest) ==
    [k \in 1..Len(data) |->
        IF Reuses(plan_steps, data, k, n0)
        THEN plan_objs[CompletedObject(plan_steps, StepId(data, k, n0))]
        ELSE newest + CreatedObjects(plan_steps, data, k, n0)]

\* a call of reevaluate_plan made before the step is appended to executed_steps
ReevaluateCallBeforeRecording(plan_steps, executed_steps, i) ==
    [executed_steps |-> SubSeq(executed_steps, 1, Len(executed_steps) - 1),
     last_step_result |-> plan_steps[i].result]

\* the arguments of one call of reevaluate_plan that tell what has been executed
\* (engine.py:172-178)
ReevaluateCall(plan_steps, executed_steps, i) ==
    [executed_steps |-> executed_steps, last_step_result |-> plan_steps[i].result]

\* the step dictionaries an LM answer may carry in updated_plan: a new step
\* without id and status, or a step that names an id of the plan
LmNewSteps ==
    {[id |-> Missing, description |-> <<"RUN", "code">>, tool_name |-> "code_runner",
      tool_args |-> MapV(<<"code">>, <<S("c0")>>), depends_on |-> <<>>, status |-> Missing,
      result |-> Null, error |-> NoError],
     [id |-> Missing, description |-> <<"Echo">>, tool_name |-> "echo",
      tool_args |-> MapV(<<"text">>, <<Str(<<Lit("got "), Ph(1)>>)>>), depends_on |-> <<>>,
      status |-> Missing, result |-> Null, error |-> NoError]}

\* a new step the LM marks as being in progress (from_dict keeps every status
\* that is a value of PlanStatus, planning/base.py:86-92, 104)
LmStartedSteps ==
    {[id |-> Missing, description |-> <<"Think">>, tool_name |-> NoTool,
      tool_args |-> EmptyMap, depends_on |-> <<>>, status |-> IN_PROGRESS,
      result |-> Null, error |-> NoError]}

\* the statuses the LM may write: none, two values of PlanStatus, and a word that
\* is not a value of PlanStatus
LmStatuses == {Missing, COMPLETED, FAILED, "done"}

LmKnownSteps(plan_steps) ==
    {[id |-> plan_steps[j].id, description |-> <<"Echo">>, tool_name |-> "echo",
      tool_args |-> MapV(<<"text">>, <<S("again")>>), depends_on |-> <<>>, status |-> st,
      result |-> Null, error |-> NoError] :
        j \in 1..Len(plan_steps), st \in LmStatuses}

\* the answers of the LM to a re-plan request: no adjustment (or an error), or an
\* adjustment with an updated_plan of at most one step
ReplanAnswers(plan_steps, budget) ==
    {[adjust |-> FALSE, updated_plan |-> <<>>]}
    \cup (IF budget > 0
          THEN {[adjust |-> TRUE, updated_plan |-> u] :
                   u \in {<<>>} \cup {<<d>> : d \in LmNewSteps \cup LmStartedSteps
                                                  \cup LmKnownSteps(plan_steps)}}
          ELSE {})

(***************************************************************************)
(* PlanningEngine.execute_plan and execute_next_step (engine.py:104-267).  *)
(***************************************************************************)
\* is_duplicate that compares the descriptions as they are written
is_duplicate_case_sensitive(executed_steps, step) ==
    \E k \in 1..Len(executed_steps) :
        /\ executed_steps[k].description = step.description
        /\ executed_steps[k].tool_name = step.tool_name

\* engine.py:134-141: the duplicate check against the executed steps
is_duplicate(executed_steps, step) ==
    \E k \in 1..Len(executed_steps) :
        /\ Lower(executed_steps[k].description) = Lower(step.description)
        /\ executed_steps[k].tool_name = step.tool_name

\* engine.py:148-159: the arguments the step is dispatched with
ResolvedArgs(step, executed_steps) ==
    IF step.tool_args # EmptyMap
    THEN _resolve_placeholders(step.tool_args, executed_steps)
    ELSE step.tool_args

\* execute_plan that keeps the executed steps of the plan before
ExecutePlanKeepsExecuted ==
    /\ pc = "idle"
    /\ planStatus' = IN_PROGRESS
    /\ pc' = "loop"
    /\ UNCHANGED <<fixed, steps, executed, cur, sent, outcome, returned, ret,
                   events, nextId, replans,
                   reevaluations, objs, dispatched>>

\* execute_plan is called with the plan (engine.py:110-115)
ExecutePlan ==
    /\ pc = "idle"
    /\ executed' = <<>>
    /\ planStatus' = IN_PROGRESS
    /\ pc' = "loop"
    /\ UNCHANGED <<fixed, steps, cur, sent, outcome, returned, ret,
                   events, nextId, replans,
                   reevaluations, objs, dispatched>>

\* execute_next_step finds no executable step (engine.py:129-132); execute_plan
\* leaves its loop and returns (engine.py:119, 123)
NoExecutableStep ==
    /\ pc = "loop"
    /\ get_next_executable_step(steps) = 0
    /\ planStatus' = update_status(steps)
    /\ returned' = [kind |-> "none", step |-> 0, step_id |-> "", status |-> PENDING]
    /\ ret' = IF planStatus' = COMPLETED THEN "true" ELSE "false"
    /\ pc' = "done"
    /\ UNCHANGED <<fixed, steps, executed, cur, sent, outcome, events,
                   nextId, replans,
                   reevaluations, objs, dispatched>>

\* execute_next_step skips a duplicate step (engine.py:142-146)
SkipDuplicate ==
    /\ pc = "loop"
    /\ LET i == get_next_executable_step(steps)
       IN  /\ i # 0
           /\ is_duplicate(executed, steps[i])
           /\ steps' = [steps EXCEPT ![i].status = COMPLETED,
                                     ![i].result =
                                        S("Step skipped to avoid duplication of previous step")]
           /\ planStatus' = update_status(steps')
           /\ returned' = [kind |-> "duplicate", step |-> i, step_id |-> steps[i].id,
                           status |-> COMPLETED]
    /\ UNCHANGED <<fixed, executed, pc, cur, sent, outcome, ret, events,
                   nextId, replans,
                   reevaluations, objs, dispatched>>

\* execute_next_step resolves the placeholders and hands the step to the executor
\* (engine.py:148-163)
DispatchStep ==
    /\ pc = "loop"
    /\ LET i == get_next_executable_step(steps)
       IN  /\ i # 0
           /\ ~is_duplicate(executed, steps[i])
           /\ steps' = [steps EXCEPT ![i].tool_args = ResolvedArgs(steps[i], executed),
                                     ![i].status = IN_PROGRESS]
           /\ sent' = [step_id |-> steps[i].id, raw_args |-> steps[i].tool_args,
                       tool_args |-> steps'[i].tool_args, executed |-> executed]
           /\ cur' = i
    /\ dispatched' = Append(dispatched, objs[cur'])
    /\ pc' = "exec"
    /\ UNCHANGED <<fixed, planStatus, executed, outcome, returned, ret,
                   events, nextId, replans, reevaluations, objs>>

\* how the recovery tool may behave (its data is not kept anywhere)
RecoveryOutcomes == {o \in Outcomes : o.kind # "ok" \/ o.data = Null}

\* which of the inputs of execute_step the call consumes
NeedsRecovery(step, o1) ==
    /\ step.tool_name # NoTool
    /\ HasRecovery(errorHandlers, step, execute_tool(tools, step.tool_name, step.tool_args, o1))

NeedsCodeFix(step, o1) ==
    /\ step.tool_name # NoTool
    /\ HasCodeFix(errorHandlers, step, execute_tool(tools, step.tool_name, step.tool_args, o1))

\* AgentExecutor.execute_step runs on the dispatched step (agent.py:140-283)
ExecuteStep ==
    /\ pc = "exec"
    /\ \E o1 \in (IF steps[cur].tool_name # NoTool THEN Outcomes ELSE {NoOutcome}) :
       \E o2 \in (IF NeedsRecovery(steps[cur], o1) THEN RecoveryOutcomes ELSE {NoOutcome}) :
       \E o3 \in (IF o2.kind = "ok" \/ NeedsCodeFix(steps[cur], o1)
                  THEN Outcomes ELSE {NoOutcome}) :
       \E fix \in (IF NeedsCodeFix(steps[cur], o1) THEN FixAnswers ELSE {<<>>}) :
       \E gen \in (IF steps[cur].tool_name = NoTool THEN GenAnswers ELSE {<<>>}) :
          LET r == execute_step(tools, errorHandlers, steps[cur], o1, o2, o3, fix, gen)
          IN  /\ steps' = [steps EXCEPT ![cur] = r.step]
              /\ events' = events \o r.events
              /\ outcome' = [success |-> r.success, calls |-> r.calls, lm_fix |-> r.lm_fix,
                             lm_gen |-> r.lm_gen, fix |-> fix, before |-> steps[cur]]
    /\ pc' = "post"
    /\ UNCHANGED <<fixed, planStatus, executed, cur, sent, returned, ret,
                   nextId, replans,
                   reevaluations, objs, dispatched>>

\* StepFailed that marks the step and lets execute_plan go on with the next step
StepFailedContinues ==
    /\ pc = "post"
    /\ ~outcome.success
    /\ steps' = [steps EXCEPT ![cur].status = FAILED]
    /\ planStatus' = update_status(steps')
    /\ returned' = [kind |-> "executed", step |-> cur, step_id |-> steps[cur].id,
                    status |-> FAILED]
    /\ pc' = "loop"
    /\ sent' = NoDispatch
    /\ outcome' = NoExecution
    /\ UNCHANGED <<fixed, executed, cur, ret, events, nextId, replans,
                   reevaluations, objs, dispatched>>

\* the executor reported failure (engine.py:262-267); execute_plan returns False
\* (engine.py:120)
StepFailed ==
    /\ pc = "post"
    /\ ~outcome.success
    /\ steps' = [steps EXCEPT ![cur].status = FAILED]
    /\ planStatus' = update_status(steps')
    /\ returned' = [kind |-> "executed", step |-> cur, step_id |-> steps[cur].id,
                    status |-> FAILED]
    /\ ret' = "false"
    /\ pc' = "done"
    /\ sent' = NoDispatch
    /\ outcome' = NoExecution
    /\ UNCHANGED <<fixed, executed, cur, events, nextId, replans,
                   reevaluations, objs, dispatched>>

\* the executor reported success and the engine has no LM manager
\* (engine.py:165-171, 266-267)
StepSucceeded ==
    /\ pc = "post"
    /\ outcome.success
    /\ ~hasLlm
    /\ steps' = [steps EXCEPT ![cur].status = COMPLETED]
    /\ executed' = Append(executed, to_dict(steps'[cur]))
    /\ planStatus' = update_status(steps')
    /\ returned' = [kind |-> "executed", step |-> cur, step_id |-> steps[cur].id,
                    status |-> COMPLETED]
    /\ pc' = "loop"
    /\ sent' = NoDispatch
    /\ outcome' = NoExecution
    /\ UNCHANGED <<fixed, cur, ret, events, nextId, replans,
                   reevaluations, objs, dispatched>>

\* the executor reported success; the plan is re-evaluated and rebuilt from the
\* returned dictionary (engine.py:165-260, 266-267); execute_plan goes on unless
\* the step object came back FAILED (engine.py:120)
StepSucceededReplan ==
    /\ pc = "post"
    /\ outcome.success
    /\ hasLlm
    /\ LET completed == [steps EXCEPT ![cur].status = COMPLETED]
           executed_steps == Append(executed, to_dict(completed[cur]))
       IN  \E answer \in ReplanAnswers(completed, MaxReplans - replans) :
              LET updated_plan_dict ==
                      reevaluate_plan(PlanToDict(completed), executed_steps, answer)
                  data == NewPlanStepsData(updated_plan_dict)
                  step_status == LastAssigned(completed, data, cur, nextId)
              IN  /\ RaisesAt(completed, data, nextId) = 0
                  /\ executed' = executed_steps
                  /\ reevaluations' = Append(reevaluations,
                                             ReevaluateCall(completed, executed_steps, cur))
                  /\ steps' = Reconstruct(completed, data, nextId)
                  /\ objs' = ReconstructObjs(completed, objs, data, nextId,
                                             NewestObject(objs, dispatched))
                  /\ nextId' = nextId + MissingIds(data, Len(data))
                  /\ replans' = IF answer.adjust THEN replans + 1 ELSE replans
                  /\ planStatus' = update_status(steps')
                  /\ returned' = [kind |-> "executed", step |-> cur,
                                  step_id |-> completed[cur].id, status |-> step_status]
                  /\ ret' = IF step_status = FAILED THEN "false" ELSE ret
                  /\ pc' = IF step_status = FAILED THEN "done" ELSE "loop"
    /\ sent' = NoDispatch
    /\ outcome' = NoExecution
    /\ UNCHANGED <<fixed, cur, events, dispatched>>

\* the executor reported success and the reconstruction of the re-evaluated plan
\* raises ValueError at engine.py:221; nothing in execute_next_step or
\* execute_plan catches it, so it leaves execute_plan: the step is COMPLETED and
\* recorded (engine.py:166-168), plan.steps and the plan status are as they were
ReconstructionRaises ==
    /\ pc = "post"
    /\ outcome.success
    /\ hasLlm
    /\ LET completed == [steps EXCEPT ![cur].status = COMPLETED]
           executed_steps == Append(executed, to_dict(completed[cur]))
       IN  \E answer \in ReplanAnswers(completed, MaxReplans - replans) :
              LET updated_plan_dict ==
                      reevaluate_plan(PlanToDict(completed), executed_steps, answer)
                  data == NewPlanStepsData(updated_plan_dict)
                  k == RaisesAt(completed, data, nextId)
              IN  /\ k # 0
                  /\ executed' = executed_steps
                  /\ reevaluations' = Append(reevaluations,
                                             ReevaluateCall(completed, executed_steps, cur))
                  /\ steps' = StatusesAssignedBefore(completed, data, k, nextId)
                  /\ nextId' = nextId + MissingIds(data, k - 1)
                  /\ replans' = replans + 1
    /\ ret' = "raised"
    /\ pc' = "raised"
    /\ sent' = NoDispatch
    /\ outcome' = NoExecution
    /\ UNCHANGED <<fixed, planStatus, cur, returned, events, objs, dispatched>>

\* reset() on an engine that is not executing (engine.py:275-279): the engine has
\* no plan afterwards
Reset ==
    /\ pc = "idle"
    /\ steps' = <<>>
    /\ objs' = <<>>
    /\ planStatus' = PENDING
    /\ executed' = <<>>
    /\ pc' = "reset"
    /\ UNCHANGED <<fixed, cur, sent, outcome, returned, ret, events, nextId, replans,
                   reevaluations, dispatched>>

Next ==
    \/ ExecutePlan
    \/ Reset
    \/ NoExecutableStep
    \/ SkipDuplicate
    \/ DispatchStep
    \/ ExecuteStep
    \/ StepFailed
    \/ StepSucceeded
    \/ StepSucceededReplan
    \/ ReconstructionRaises

Spec == Init /\ [][Next]_vars

\* the engine runs in one thread that goes on to its next statement as long as
\* there is one: execute_plan, once called, is never left standing in the middle
SpecFair == Init /\ [][Next]_vars /\ WF_vars(Next)

(***************************************************************************)
(* Plan.update_status and Plan.get_next_executable_step on their own: a    *)
(* plan whose steps carry any statuses and dependencies, on which one of   *)
(* the methods is called.                                                  *)
(***************************************************************************)
DependsChoices == {<<>>, <<"s1">>, <<"s2">>, <<"s1", "nowhere">>}

\* step i of such a plan: its own id or the id of the first step
StatusSteps(i) ==
    {[PlanStep(step_id, <<"Think">>, NoTool, EmptyMap, depends_on) EXCEPT !.status = st] :
        step_id \in {InitialIds[i], "s1"}, depends_on \in DependsChoices, st \in PlanStatus}

StatusPlans ==
    UNION {{plan_steps \in [1..n -> UNION {StatusSteps(i) : i \in 1..n}] :
               \A i \in 1..n : plan_steps[i] \in StatusSteps(i)} : n \in 0..MaxSteps}

InitStatus ==
    /\ hasLlm = FALSE
    /\ tools = {"code_runner", "package_installer", "echo"}
    /\ errorHandlers = get_error_handlers
    /\ steps \in StatusPlans
    /\ planStatus = PENDING
    /\ executed = <<>>
    /\ pc = "start"
    /\ cur = 0
    /\ sent = NoDispatch
    /\ outcome = NoExecution
    /\ returned = NoReturn
    /\ ret = "none"
    /\ events = <<>>
    /\ nextId = 0
    /\ replans = 0
    /\ reevaluations = <<>>
    /\ objs = <<>>
    /\ dispatched = <<>>
    /\ registered = AgentTools
    /\ log = AgentTools
    /\ lastCall = NoCall
    /\ queue = <<>>
    /\ published = <<>>
    /\ dequeued = <<>>
    /\ producer = Ready
    /\ InitMemory

\* plan.update_status() of catalyst_agent
UpdateStatus ==
    /\ pc = "start"
    /\ planStatus' = update_status(steps)
    /\ pc' = "updated"
    /\ UNCHANGED <<fixed, steps, executed, cur, sent, outcome, returned,
                   ret, events, nextId, replans,
                   reevaluations, objs, dispatched>>

\* plan.update_status() of the older package
CoreUpdateStatus ==
    /\ pc = "start"
    /\ planStatus' = core_update_status(steps)
    /\ pc' = "core_updated"
    /\ UNCHANGED <<fixed, steps, executed, cur, sent, outcome, returned,
                   ret, events, nextId, replans,
                   reevaluations, objs, dispatched>>

\* plan.get_next_executable_step()
GetNextExecutableStep ==
    /\ pc = "start"
    /\ cur' = get_next_executable_step(steps)
    /\ pc' = "selected"
    /\ UNCHANGED <<fixed, steps, planStatus, executed, sent, outcome,
                   returned, ret, events, nextId, replans,
                   reevaluations, objs, dispatched>>

NextStatus ==
    \/ UpdateStatus
    \/ CoreUpdateStatus
    \/ GetNextExecutableStep

SpecStatus == InitStatus /\ [][NextStatus]_vars

(***************************************************************************)
(* ToolRegistry on its own (tools/base.py:200-239, 287-335): tools are     *)
(* registered one after the other, and between the registrations the       *)
(* registry is asked for a tool, for all tools, or for a recovery step.     *)
(***************************************************************************)
\* a tool that offers handlers of its own: one for a pattern no other tool has,
\* one for a pattern of the package installer
PipHelperHandlers ==
    << [pattern |-> <<"No module named">>,
        tool |-> "pip_helper",
        description |-> <<"Ask", "pip">>,
        arg_generator |-> "failed_step_args"],
       [pattern |-> <<"ImportError:", "No module named">>,
        tool |-> "pip_helper",
        description |-> <<"Ask", "pip", "again">>,
        arg_generator |-> "failed_step_args"] >>

\* the tool objects register_tool is called with; t1 and t2 have the same name
RegistryTools ==
    {PackageInstallerTool,
     ToolObject("package_installer", "t2", <<>>),
     ToolObject("echo", "t3", <<>>),
     ToolObject("pip_helper", "t4", PipHelperHandlers)}

ToolNames == {"package_installer", "echo", "pip_helper", "code_runner"}

\* the error texts create_recovery_step is called with
RegistryErrors ==
    Errors \cup {<<>>, <<"Error:", "No module named", "'bar'">>,
                 <<"ImportError:", "No module named", "'foo'">>}

FailedSteps ==
    {to_dict(PlanStep("s1", <<"Run", "code">>, "code_runner",
                      MapV(<<"code">>, <<S("c0")>>), <<>>)),
     to_dict(PlanStep("s2", <<"Echo">>, "echo", MapV(<<"text">>, <<S("again")>>), <<>>))}

\* ToolRegistry.__init__: both dicts empty
InitRegistry ==
    /\ hasLlm = FALSE
    /\ tools = {}
    /\ errorHandlers = <<>>
    /\ steps = <<>>
    /\ planStatus = PENDING
    /\ executed = <<>>
    /\ pc = "registry"
    /\ cur = 0
    /\ sent = NoDispatch
    /\ outcome = NoExecution
    /\ returned = NoReturn
    /\ ret = "none"
    /\ events = <<>>
    /\ nextId = 0
    /\ replans = 0
    /\ reevaluations = <<>>
    /\ objs = <<>>
    /\ dispatched = <<>>
    /\ registered = <<>>
    /\ log = <<>>
    /\ lastCall = NoCall
    /\ queue = <<>>
    /\ published = <<>>
    /\ dequeued = <<>>
    /\ producer = Ready
    /\ InitMemory

\* registry.register_tool(tool)
RegisterTool ==
    /\ pc = "registry"
    /\ Len(log) < MaxRegistered
    /\ \E tool \in RegistryTools :
          LET r == register_tool(registered, errorHandlers, tool)
          IN  /\ registered' = r._tools
              /\ errorHandlers' = r._error_handlers
              /\ tools' = {r._tools[i].name : i \in 1..Len(r._tools)}
              /\ log' = Append(log, tool)
              /\ lastCall' = [op |-> "register_tool", name |-> tool.name]
    /\ UNCHANGED <<memory, engine, queue, published, dequeued, producer>>

\* registry.get_tool(name)
GetTool ==
    /\ pc = "registry"
    /\ \E name \in ToolNames :
          lastCall' = [op |-> "get_tool", name |-> name,
                       result |-> get_tool(registered, name)]
    /\ UNCHANGED <<memory, engine, tools, errorHandlers, registered, log, queue, published,
                   dequeued, producer>>

\* registry.get_all_tools()
GetAllTools ==
    /\ pc = "registry"
    /\ lastCall' = [op |-> "get_all_tools", result |-> get_all_tools(registered)]
    /\ UNCHANGED <<memory, engine, tools, errorHandlers, registered, log, queue, published,
                   dequeued, producer>>

\* registry.create_recovery_step(error_message, failed_step)
CreateRecoveryStep ==
    /\ pc = "registry"
    /\ \E error_message \in RegistryErrors, failed_step \in FailedSteps :
          lastCall' = [op |-> "create_recovery_step", error_message |-> error_message,
                       failed_step |-> failed_step,
                       result |-> create_recovery_step(errorHandlers, error_message,
                                                       failed_step)]
    /\ UNCHANGED <<memory, engine, tools, errorHandlers, registered, log, queue, published,
                   dequeued, producer>>

NextRegistry ==
    \/ RegisterTool
    \/ GetTool
    \/ GetAllTools
    \/ CreateRecoveryStep

SpecRegistry == InitRegistry /\ [][NextRegistry]_vars

(***************************************************************************)
(* EventQueue on its own (event_queue.py:65-189): one thread publishes     *)
(* events with the add_* methods, another takes them from the queue object *)
(* the EventQueue holds (EventQueue has no method that removes an event).  *)
(***************************************************************************)
\* three of the event types the add_* methods publish
EventTypes == {"tool_input", "tool_output", "plan_generation"}

\* Event: the n-th event created, of the given type
Event(n, event_type) == [id |-> n, event_type |-> event_type]

\* queue.Queue(maxsize=max_size).put(event) with block=True: whether the call can
\* return, and the queue when it does
put_at_front(q, event) == [returns |-> Len(q) < max_size, queue |-> <<event>> \o q]

put(q, event) == [returns |-> Len(q) < max_size, queue |-> Append(q, event)]

\* queue.Queue.get(): the item taken and the queue left
get(q) == [item |-> Head(q), queue |-> Tail(q)]

\* number of events created so far
Created == Len(published) + (IF producer.state = "blocked" THEN 1 ELSE 0)

\* EventQueue.__init__
InitQueue ==
    /\ hasLlm = FALSE
    /\ tools = {}
    /\ errorHandlers = <<>>
    /\ steps = <<>>
    /\ planStatus = PENDING
    /\ executed = <<>>
    /\ pc = "queue"
    /\ cur = 0
    /\ sent = NoDispatch
    /\ outcome = NoExecution
    /\ returned = NoReturn
    /\ ret = "none"
    /\ events = <<>>
    /\ nextId = 0
    /\ replans = 0
    /\ reevaluations = <<>>
    /\ objs = <<>>
    /\ dispatched = <<>>
    /\ registered = <<>>
    /\ log = <<>>
    /\ lastCall = NoCall
    /\ queue = <<>>
    /\ published = <<>>
    /\ dequeued = <<>>
    /\ producer = Ready
    /\ InitMemory

\* an add_* method is called: the event is created and put; the call returns when
\* the queue has room, otherwise the calling thread waits inside put
AddEvent ==
    /\ pc = "queue"
    /\ producer.state = "ready"
    /\ Created < MaxEvents
    /\ \E event_type \in EventTypes :
          LET event == Event(Created + 1, event_type)
              r == put(queue, event)
          IN  IF r.returns
              THEN /\ queue' = r.queue
                   /\ published' = Append(published, event)
                   /\ producer' = Ready
              ELSE /\ producer' = [state |-> "blocked", event |-> event]
                   /\ UNCHANGED <<queue, published>>
    /\ UNCHANGED <<memory, engine, tools, errorHandlers, registered, log, lastCall, dequeued>>

\* the put that waited finds room and returns
PutReturns ==
    /\ pc = "queue"
    /\ producer.state = "blocked"
    /\ LET r == put(queue, producer.event)
       IN  /\ r.returns
           /\ queue' = r.queue
           /\ published' = Append(published, producer.event)
           /\ producer' = Ready
    /\ UNCHANGED <<memory, engine, tools, errorHandlers, registered, log, lastCall, dequeued>>

\* a consumer takes the next event: event_queue.queue.get()
QueueGet ==
    /\ pc = "queue"
    /\ queue # <<>>
    /\ LET r == get(queue)
       IN  /\ queue' = r.queue
           /\ dequeued' = Append(dequeued, r.item)
           /\ lastCall' = [op |-> "get", result |-> r.item]
    /\ UNCHANGED <<memory, engine, tools, errorHandlers, registered, log, published, producer>>

\* EventQueue.get_events() (also behind get_events_as_dicts and
\* get_latest_event): list(self.queue) raises TypeError, a queue.Queue is not
\* iterable; no event is read or removed
GetEvents ==
    /\ pc = "queue"
    /\ lastCall' = [op |-> "get_events", raised |-> "TypeError"]
    /\ UNCHANGED <<memory, engine, tools, errorHandlers, registered, log, queue, published,
                   dequeued, producer>>

NextQueue ==
    \/ AddEvent
    \/ PutReturns
    \/ QueueGet
    \/ GetEvents

SpecQueue == InitQueue /\ [][NextQueue]_vars

(***************************************************************************)
(* LLMManager.generate_plan (llm.py:111-295) and LLMPlanner.create_plan    *)
(* (agent.py:40-124): from the content the LM sends to the plan.           *)
(***************************************************************************)
\* the largest number of items in a step list the LM sends
MaxEntries == 2

\* dict.get(key) of a key that is missing or null: None
PyNone == "<None>"

\* a key of a step dictionary that is missing (for a value)
Absent == [t |-> "absent", n |-> 0, toks |-> <<>>, keys |-> <<>>, kids |-> <<>>]

\* bool(value)
Truthy(v) ==
    CASE v.t = "null"   -> FALSE
      [] v.t = "absent" -> FALSE
      [] v.t = "int"    -> v.n # 0
      [] v.t = "bool"   -> v.n = 1
      [] v.t = "str"    -> v.toks # <<>>
      [] v.t = "list"   -> v.kids # <<>>
      [] v.t = "dict"   -> v.keys # <<>>

\* an entry of a step list: a JSON object with the keys the planner reads (a
\* missing description is << >>), or something that is not an object
StepData(description, tool_name, tool_args) ==
    [is_dict |-> TRUE, description |-> description, tool_name |-> tool_name,
     tool_args |-> tool_args]

NotAnObject ==
    [is_dict |-> FALSE, description |-> <<>>, tool_name |-> PyNone, tool_args |-> Absent]

\* the tool names and arguments the LM writes
LmToolNames == {PyNone, "", "null", "echo", "ghost"}

LmToolArgs ==
    {Absent, Null, S("null"), S("None"), MapV(<<"text">>, <<S("hi")>>), Str(<<Ph(1)>>)}

PlanEntries ==
    {StepData(<<"Echo">>, n, a) : n \in LmToolNames, a \in LmToolArgs}
    \cup {StepData(<<>>, "echo", EmptyMap), NotAnObject}

StepLists == UNION {[1..n -> PlanEntries] : n \in 0..MaxEntries}

\* a JSON value under the key of the step list: a list of items, or a value
\* of another type
JsonList(items) == [t |-> "list", entries |-> items]

JsonOther(t) == [t |-> t, entries |-> <<>>]

\* what the LM call gives generate_plan: it raises, it returns text that is not
\* JSON, or JSON whose root is an object (the step list under "plan", under
\* "steps", or no such key), a list, or a scalar
PlanContents ==
    {[kind |-> "raise", key |-> Missing, value |-> JsonOther("null")],
     [kind |-> "text", key |-> Missing, value |-> JsonOther("null")],
     [kind |-> "scalar", key |-> Missing, value |-> JsonOther("str")]}
    \cup {[kind |-> "object", key |-> k, value |-> v] :
             k \in {"plan", "steps"},
             v \in {JsonList(l) : l \in StepLists}
                   \cup {JsonOther("null"), JsonOther("int"), JsonOther("str")}}
    \cup {[kind |-> "object", key |-> Missing, value |-> JsonOther("null")]}
    \cup {[kind |-> "list", key |-> Missing, value |-> JsonList(l)] : l \in StepLists}

\* the dictionary generate_plan returns on an error (llm.py:272-281, 286-295)
ErrorPlan(description) ==
    [has_plan |-> TRUE,
     plan |-> JsonList(<<StepData(description, PyNone, Null)>>)]

\* len(value) is defined
Sized(value) == value.t \in {"list", "str", "dict"}

\* LLMManager.generate_plan: the parsed content is returned as it is; a JSON
\* error gives the "Error parsing plan" dictionary; an exception of the LM call,
\* or of the log line that takes len(plan_data.get('plan', [])) (llm.py:267: a
\* root that is not an object has no get, a plan without a length has no len),
\* gives the "Error generating plan" dictionary
generate_plan(content) ==
    CASE content.kind = "raise" -> ErrorPlan(<<"Error", "generating", "plan">>)
      [] content.kind = "text"  -> ErrorPlan(<<"Error", "parsing", "plan">>)
      [] content.kind \in {"scalar", "list"} -> ErrorPlan(<<"Error", "generating", "plan">>)
      [] content.kind = "object" /\ content.key = "plan" /\ ~Sized(content.value) ->
            ErrorPlan(<<"Error", "generating", "plan">>)
      [] OTHER -> [has_plan |-> content.key = "plan", plan |-> content.value]

\* agent.py:73-83: the fields of a step read from an entry
Description(step_data) ==
    IF step_data.description = <<>> THEN <<"Unknown", "step">> ELSE step_data.description

ToolName(step_data) ==
    IF step_data.tool_name \in {PyNone, "", "null", "None"} THEN NoTool
    ELSE step_data.tool_name

\* agent.py:75, 82-83 and PlanStep.__init__ (planning/base.py:51): a missing
\* value is {}, None, "null" and "None" become {}, and so does every falsy value
ToolArgs(step_data) ==
    LET tool_args == IF step_data.tool_args = Absent THEN EmptyMap ELSE step_data.tool_args
    IN  IF tool_args \in {Null, S("null"), S("None")} THEN EmptyMap
        ELSE IF Truthy(tool_args) THEN tool_args
        ELSE EmptyMap

\* the fallback steps of create_plan
AnalyzeStep(step_id) ==
    PlanStep(step_id, <<"Analyze", "the", "request", "and", "respond", "to", "the", "user">>,
             NoTool, EmptyMap, <<>>)

ErrorStep(step_id) ==
    PlanStep(step_id,
             <<"Error", "generating", "plan,", "inform", "the", "user", "of", "the", "failure">>,
             NoTool, EmptyMap, <<>>)

\* the first entry that is not an object (step_data.get raises AttributeError
\* there), 0 when every entry is an object
FirstNotAnObject(items) ==
    LET ks == {k \in 1..Len(items) : ~items[k].is_dict}
    IN  IF ks = {} THEN 0 ELSE CHOOSE k \in ks : \A j \in ks : k <= j

\* create_plan without the step added to an empty plan
create_plan_keeps_empty(plan_data, n0) ==
    IF plan_data.has_plan /\ plan_data.plan.t = "list"
    THEN LET items == plan_data.plan.entries
             bad == FirstNotAnObject(items)
         IN  IF bad # 0 THEN <<ErrorStep(Uuid(n0 + bad))>>
             ELSE [k \in 1..Len(items) |->
                      PlanStep(Uuid(n0 + k), Description(items[k]), ToolName(items[k]),
                               ToolArgs(items[k]), <<>>)]
    ELSE <<AnalyzeStep(Uuid(n0 + 1))>>

\* LLMPlanner.create_plan on what generate_plan returned: the steps of the plan
\* (n0 ids were generated before)
create_plan(plan_data, n0) ==
    IF plan_data.has_plan /\ plan_data.plan.t = "list"
    THEN LET items == plan_data.plan.entries
             bad == FirstNotAnObject(items)
         IN  IF bad # 0 THEN <<ErrorStep(Uuid(n0 + bad))>>
             ELSE IF Len(items) = 0 THEN <<AnalyzeStep(Uuid(n0 + 1))>>
             ELSE [k \in 1..Len(items) |->
                      PlanStep(Uuid(n0 + k), Description(items[k]), ToolName(items[k]),
                               ToolArgs(items[k]), <<>>)]
    ELSE <<AnalyzeStep(Uuid(n0 + 1))>>

\* the number of step ids create_plan draws: one for every step it builds, the
\* steps built before an entry raised included
IdsDrawn(plan_data) ==
    IF plan_data.has_plan /\ plan_data.plan.t = "list"
    THEN LET items == plan_data.plan.entries
             bad == FirstNotAnObject(items)
         IN  IF bad # 0 THEN bad ELSE IF Len(items) = 0 THEN 1 ELSE Len(items)
    ELSE 1

\* a planner before its first plan
InitPlanner ==
    /\ hasLlm = TRUE
    /\ tools = {}
    /\ errorHandlers = <<>>
    /\ steps = <<>>
    /\ planStatus = PENDING
    /\ executed = <<>>
    /\ pc = "planner"
    /\ cur = 0
    /\ sent = NoDispatch
    /\ outcome = NoExecution
    /\ returned = NoReturn
    /\ ret = "none"
    /\ events = <<>>
    /\ nextId = 0
    /\ replans = 0
    /\ reevaluations = <<>>
    /\ objs = <<>>
    /\ dispatched = <<>>
    /\ registered = <<>>
    /\ log = <<>>
    /\ lastCall = NoCall
    /\ queue = <<>>
    /\ published = <<>>
    /\ dequeued = <<>>
    /\ producer = Ready
    /\ InitMemory

\* PlanningEngine.create_plan (engine.py:95-103): the plan of the planner becomes
\* the current plan, the executed steps are reset
CreatePlan ==
    /\ pc = "planner"
    /\ \E content \in PlanContents :
          /\ steps' = create_plan(generate_plan(content), nextId)
          /\ lastCall' = [op |-> "create_plan", content |-> content]
          /\ nextId' = nextId + IdsDrawn(generate_plan(content))
    /\ planStatus' = PENDING
    /\ executed' = <<>>
    /\ pc' = "planned"
    /\ UNCHANGED <<memory, hasLlm, tools, errorHandlers, cur, sent, outcome, returned, ret,
                   events, replans, reevaluations, objs, dispatched,
                   registered, log, queue, published, dequeued, producer>>

NextPlanner == CreatePlan

SpecPlanner == InitPlanner /\ [][NextPlanner]_vars

(***************************************************************************)
(* ShortTermMemory (core/memory/implementations.py) behind MemoryManager   *)
(* (core/memory/manager.py): one caller at a time.                         *)
(***************************************************************************)
\* short_term_capacity of the memory
capacity == 2

\* the largest number of add calls
MaxAdds == 4

\* uuid.uuid4() of the n-th memory entry
MemoryId(n) == "m" \o ToString(n)

\* MessageEntry(content, sender) and ExecutionEntry(action, status): the n-th
\* entry created
MessageEntry(n, sender) == [id |-> MemoryId(n), entry_type |-> "message", sender |-> sender]

ExecutionEntry(n) == [id |-> MemoryId(n), entry_type |-> "execution", sender |-> ""]

Senders == {"user", "agent"}

\* self.entry_map[entry.id] = entry
IndexEntry(mem_map, entry) == {e \in mem_map : e.id # entry.id} \cup {entry}

\* entry_id in self.entry_map, and del self.entry_map[entry_id]
Indexed(mem_map, entry_id) == \E e \in mem_map : e.id = entry_id

DeleteEntry(mem_map, entry_id) == {e \in mem_map : e.id # entry_id}

\* the loop of ShortTermMemory.add (implementations.py:39-41); raised: the del
\* met an id the map does not hold (KeyError)
RECURSIVE Evict(_, _)
Evict(mem_entries, mem_map) ==
    IF Len(mem_entries) <= capacity
    THEN [entries |-> mem_entries, entry_map |-> mem_map, raised |-> FALSE]
    ELSE IF ~Indexed(mem_map, Head(mem_entries).id)
    THEN [entries |-> Tail(mem_entries), entry_map |-> mem_map, raised |-> TRUE]
    ELSE Evict(Tail(mem_entries), DeleteEntry(mem_map, Head(mem_entries).id))

\* ShortTermMemory.add that removes the newest entry on overflow
short_term_add_drops_newest(mem_entries, mem_map, entry) ==
    IF Len(mem_entries) < capacity
    THEN [entries |-> Append(mem_entries, entry), entry_map |-> IndexEntry(mem_map, entry),
          raised |-> FALSE]
    ELSE [entries |-> mem_entries, entry_map |-> mem_map, raised |-> FALSE]

\* ShortTermMemory.add (implementations.py:32-41), reached through
\* MemoryManager.add (manager.py:43-57)
short_term_add(mem_entries, mem_map, entry) ==
    Evict(Append(mem_entries, entry), IndexEntry(mem_map, entry))

\* ShortTermMemory.get: the entry indexed under the id, NoEntry for None
short_term_get(mem_map, entry_id) ==
    IF Indexed(mem_map, entry_id) THEN CHOOSE e \in mem_map : e.id = entry_id ELSE NoEntry

\* ShortTermMemory.get_recent() without limit: a copy of the list
get_recent(mem_entries) == mem_entries

\* MemoryManager.get_recent_messages
IsMessage(entry) == entry.entry_type = "message"

get_recent_messages(mem_entries) == SelectSeq(get_recent(mem_entries), IsMessage)

\* MemoryManager.get_conversation_history: the messages (as_text joins their
\* "Sender: content" lines in the same order)
get_conversation_history(mem_entries) == get_recent_messages(mem_entries)

\* the ids a caller may look up: those of entries created so far, and one that
\* was never given out
KnownIds == {MemoryId(n) : n \in 0..Len(added)}

InitShortTerm ==
    /\ hasLlm = FALSE
    /\ tools = {}
    /\ errorHandlers = <<>>
    /\ steps = <<>>
    /\ planStatus = PENDING
    /\ executed = <<>>
    /\ pc = "memory"
    /\ cur = 0
    /\ sent = NoDispatch
    /\ outcome = NoExecution
    /\ returned = NoReturn
    /\ ret = "none"
    /\ events = <<>>
    /\ nextId = 0
    /\ replans = 0
    /\ reevaluations = <<>>
    /\ objs = <<>>
    /\ dispatched = <<>>
    /\ registered = <<>>
    /\ log = <<>>
    /\ lastCall = NoCall
    /\ queue = <<>>
    /\ published = <<>>
    /\ dequeued = <<>>
    /\ producer = Ready
    /\ InitMemory

\* MemoryManager.add_message (manager.py:59-80)
AddMessage ==
    /\ pc = "memory"
    /\ Len(added) < MaxAdds
    /\ \E sender \in Senders :
          LET entry == MessageEntry(Len(added) + 1, sender)
              r == short_term_add(entries, entry_map, entry)
          IN  /\ entries' = r.entries
              /\ entry_map' = r.entry_map
              /\ added' = Append(added, entry)
              /\ lastCall' = [op |-> "add_message", id |-> entry.id, found |-> entry]
    /\ UNCHANGED <<engine, tools, errorHandlers, registered, log, queue, published, dequeued,
                   producer, writers, snapshot, config>>

\* MemoryManager.add_execution (manager.py:82-110)
AddExecution ==
    /\ pc = "memory"
    /\ Len(added) < MaxAdds
    /\ LET entry == ExecutionEntry(Len(added) + 1)
           r == short_term_add(entries, entry_map, entry)
       IN  /\ entries' = r.entries
           /\ entry_map' = r.entry_map
           /\ added' = Append(added, entry)
           /\ lastCall' = [op |-> "add_execution", id |-> entry.id, found |-> entry]
    /\ UNCHANGED <<engine, tools, errorHandlers, registered, log, queue, published, dequeued,
                   producer, writers, snapshot, config>>

\* ShortTermMemory.get (implementations.py:43-45)
ShortTermGet ==
    /\ pc = "memory"
    /\ \E entry_id \in KnownIds :
          lastCall' = [op |-> "get", id |-> entry_id,
                       found |-> short_term_get(entry_map, entry_id)]
    /\ UNCHANGED <<engine, tools, errorHandlers, registered, log, queue, published, dequeued,
                   producer, memory>>

\* MemoryManager.get_conversation_history (manager.py:173-195)
GetConversationHistory ==
    /\ pc = "memory"
    /\ snapshot' = get_conversation_history(entries)
    /\ lastCall' = [op |-> "get_conversation_history", id |-> "", found |-> NoEntry]
    /\ UNCHANGED <<engine, tools, errorHandlers, registered, log, queue, published, dequeued,
                   producer, entries, entry_map, added, writers, config>>

NextShortTerm ==
    \/ AddMessage
    \/ AddExecution
    \/ ShortTermGet
    \/ GetConversationHistory

SpecShortTerm == InitShortTerm /\ [][NextShortTerm]_vars

(***************************************************************************)
(* Two threads inside MemoryManager.add_message / add_execution on the     *)
(* same memory, and a thread that reads the conversation history.  The     *)
(* code takes no lock (implementations.py:32-41, manager.py:43-57), so the *)
(* statements of ShortTermMemory.add interleave.                           *)
(***************************************************************************)
Writers == {"w1", "w2"}

\* the store before the two calls: n entries added earlier
OldEntries(n) == [k \in 1..n |-> MessageEntry(k, IF k % 2 = 1 THEN "user" ELSE "agent")]

EntrySet(mem_entries) == {mem_entries[k] : k \in 1..Len(mem_entries)}

\* a thread that has created its entry and is about to call ShortTermMemory.add
Calling(entry) == [at |-> "start", entry |-> entry, oldest |-> NoEntry]

InitWriters ==
    /\ hasLlm = FALSE
    /\ tools = {}
    /\ errorHandlers = <<>>
    /\ steps = <<>>
    /\ planStatus = PENDING
    /\ executed = <<>>
    /\ pc = "writers"
    /\ cur = 0
    /\ sent = NoDispatch
    /\ outcome = NoExecution
    /\ returned = NoReturn
    /\ ret = "none"
    /\ events = <<>>
    /\ nextId = 0
    /\ replans = 0
    /\ reevaluations = <<>>
    /\ objs = <<>>
    /\ dispatched = <<>>
    /\ registered = <<>>
    /\ log = <<>>
    /\ lastCall = NoCall
    /\ queue = <<>>
    /\ published = <<>>
    /\ dequeued = <<>>
    /\ producer = Ready
    /\ \E n \in 0..capacity :
          /\ added = OldEntries(n)
          /\ entries = OldEntries(n)
          /\ entry_map = EntrySet(OldEntries(n))
          /\ \E first \in {MessageEntry(n + 1, s) : s \in Senders} :
             \E second \in {MessageEntry(n + 2, s) : s \in Senders} \cup {ExecutionEntry(n + 2)} :
                writers = [w \in Writers |-> Calling(IF w = "w1" THEN first ELSE second)]
    /\ snapshot = <<>>
    /\ config = AgentConfig

\* implementations.py:35: self.entries.append(entry)
WriterAppend(w) ==
    /\ pc = "writers"
    /\ writers[w].at = "start"
    /\ entries' = Append(entries, writers[w].entry)
    /\ writers' = [writers EXCEPT ![w].at = "appended"]
    /\ UNCHANGED <<engine, tools, errorHandlers, registered, log, lastCall, queue, published,
                   dequeued, producer, entry_map, added, snapshot, config>>

\* implementations.py:36: self.entry_map[entry.id] = entry
WriterIndex(w) ==
    /\ pc = "writers"
    /\ writers[w].at = "appended"
    /\ entry_map' = IndexEntry(entry_map, writers[w].entry)
    /\ writers' = [writers EXCEPT ![w].at = "indexed"]
    /\ UNCHANGED <<engine, tools, errorHandlers, registered, log, lastCall, queue, published,
                   dequeued, producer, entries, added, snapshot, config>>

\* implementations.py:39: the test of the while loop; the call returns when the
\* test fails
WriterCheck(w) ==
    /\ pc = "writers"
    /\ writers[w].at = "indexed"
    /\ writers' = [writers EXCEPT ![w].at = IF Len(entries) > capacity THEN "evicting"
                                            ELSE "done"]
    /\ UNCHANGED <<engine, tools, errorHandlers, registered, log, lastCall, queue, published,
                   dequeued, producer, entries, entry_map, added, snapshot, config>>

\* implementations.py:40: oldest = self.entries.pop(0); IndexError on an empty list
WriterPop(w) ==
    /\ pc = "writers"
    /\ writers[w].at = "evicting"
    /\ IF entries = <<>>
       THEN /\ writers' = [writers EXCEPT ![w].at = "raised"]
            /\ UNCHANGED entries
       ELSE /\ writers' = [writers EXCEPT ![w].at = "popped", ![w].oldest = Head(entries)]
            /\ entries' = Tail(entries)
    /\ UNCHANGED <<engine, tools, errorHandlers, registered, log, lastCall, queue, published,
                   dequeued, producer, entry_map, added, snapshot, config>>

\* implementations.py:41: del self.entry_map[oldest.id]; KeyError for an id the
\* map does not hold
WriterDelete(w) ==
    /\ pc = "writers"
    /\ writers[w].at = "popped"
    /\ IF Indexed(entry_map, writers[w].oldest.id)
       THEN /\ entry_map' = DeleteEntry(entry_map, writers[w].oldest.id)
            /\ writers' = [writers EXCEPT ![w].at = "indexed"]
       ELSE /\ writers' = [writers EXCEPT ![w].at = "raised"]
            /\ UNCHANGED entry_map
    /\ UNCHANGED <<engine, tools, errorHandlers, registered, log, lastCall, queue, published,
                   dequeued, producer, entries, added, snapshot, config>>

\* a third thread calls get_conversation_history (manager.py:173-195): it copies
\* the list as it is at that moment (implementations.py:94-95)
ReadHistory ==
    /\ pc = "writers"
    /\ snapshot' = get_conversation_history(entries)
    /\ lastCall' = [op |-> "get_conversation_history", id |-> "", found |-> NoEntry]
    /\ UNCHANGED <<engine, tools, errorHandlers, registered, log, queue, published, dequeued,
                   producer, entries, entry_map, added, writers, config>>

NextWriters ==
    \/ \E w \in Writers : WriterAppend(w)
    \/ \E w \in Writers : WriterIndex(w)
    \/ \E w \in Writers : WriterCheck(w)
    \/ \E w \in Writers : WriterPop(w)
    \/ \E w \in Writers : WriterDelete(w)
    \/ ReadHistory

SpecWriters == InitWriters /\ [][NextWriters]_vars

(***************************************************************************)
(* AgentCore.process_message (agent.py:356-419) on the agent as            *)
(* AgentCore.__init__ assembles it (agent.py:292-354): its memory, its     *)
(* registry, and a PlanningEngine over LLMPlanner and AgentExecutor.       *)
(* The engine calls executor.execute_step(step, execution_context,         *)
(* executed_steps) (engine.py:163) as the Executor interface declares it   *)
(* (engine.py:29); AgentExecutor.execute_step takes (step, context)        *)
(* (agent.py:140), so in this assembly the call raises TypeError before    *)
(* the executor runs.  The method _generate_direct_response that           *)
(* process_message calls when planning is disabled (agent.py:414) is       *)
(* defined nowhere, so that call raises AttributeError.                    *)
(***************************************************************************)
\* what the LM sends for the plan of a request
AgentContents ==
    {c \in PlanContents :
        \/ c.kind \in {"raise", "text"}
        \/ /\ c.kind = "object"
           /\ c.key = "plan"
           /\ c.value.t = "list"
           /\ Len(c.value.entries) <= 1
           /\ \A k \in 1..Len(c.value.entries) :
                 /\ c.value.entries[k].is_dict
                 /\ c.value.entries[k].tool_name \in {PyNone, "echo"}
                 /\ c.value.entries[k].tool_args \in {Absent, MapV(<<"text">>, <<S("hi")>>)}}

\* the tools registered with the agent: none, or those of the engine's agent
AgentToolSets == {<<>>, AgentTools}

ToolNamesOf(tool_objects) == {tool_objects[k].name : k \in 1..Len(tool_objects)}

\* agent.py:373-381: current_date is entered in config.metadata when it is missing
set_current_date_toggles(cfg) == [cfg EXCEPT !.current_date = ~cfg.current_date]

set_current_date(cfg) == [cfg EXCEPT !.current_date = TRUE]

\* execute_plan on the plan just created (engine.py:110-115), up to the call of
\* the executor in the first execute_next_step (engine.py:127-163): the step's
\* placeholders are resolved and the step is IN_PROGRESS when the call raises
UpToExecutorCall(plan_steps) ==
    LET i == get_next_executable_step(plan_steps)
    IN  IF i = 0 \/ is_duplicate(<<>>, plan_steps[i]) THEN plan_steps
        ELSE [plan_steps EXCEPT ![i].tool_args = ResolvedArgs(plan_steps[i], <<>>),
                                ![i].status = IN_PROGRESS]

\* AgentCore.__init__
InitAgent ==
    /\ hasLlm = TRUE
    /\ registered \in AgentToolSets
    /\ tools = ToolNamesOf(registered)
    /\ errorHandlers = IF registered = <<>> THEN <<>> ELSE get_error_handlers
    /\ log = registered
    /\ steps = <<>>
    /\ planStatus = PENDING
    /\ executed = <<>>
    /\ pc = "agent"
    /\ cur = 0
    /\ sent = NoDispatch
    /\ outcome = NoExecution
    /\ returned = NoReturn
    /\ ret = "none"
    /\ events = <<>>
    /\ nextId = 0
    /\ replans = 0
    /\ reevaluations = <<>>
    /\ objs = <<>>
    /\ dispatched = <<>>
    /\ lastCall = NoCall
    /\ queue = <<>>
    /\ published = <<>>
    /\ dequeued = <<>>
    /\ producer = Ready
    /\ entries = <<>>
    /\ entry_map = {}
    /\ added = <<>>
    /\ writers = NoWriters
    /\ snapshot = <<>>
    /\ \E planning_enabled \in BOOLEAN :
          config = [AgentConfig EXCEPT !.planning_enabled = planning_enabled]

\* process_message with planning enabled: the inbound message is stored, the
\* plan is created and handed to execute_plan, and the TypeError of the executor
\* call leaves process_message (agent.py:370-402, engine.py:95-163)
ProcessMessagePlanning ==
    /\ pc = "agent"
    /\ config.planning_enabled
    /\ Len(added) < MaxAdds
    /\ \E sender \in Senders, content \in AgentContents :
          LET inbound == MessageEntry(Len(added) + 1, sender)
              r == short_term_add(entries, entry_map, inbound)
              plan == create_plan(generate_plan(content), nextId)
          IN  /\ entries' = r.entries
              /\ entry_map' = r.entry_map
              /\ added' = Append(added, inbound)
              /\ snapshot' = get_conversation_history(r.entries)
              /\ steps' = UpToExecutorCall(plan)
              /\ nextId' = nextId + IdsDrawn(generate_plan(content))
              /\ lastCall' = [op |-> "process_message", sender |-> sender,
                              inbound |-> inbound, raised |-> "TypeError",
                              response |-> NoEntry, before |-> Len(added)]
    /\ config' = set_current_date(config)
    /\ planStatus' = IN_PROGRESS
    /\ executed' = <<>>
    /\ UNCHANGED <<hasLlm, tools, errorHandlers, registered, log, pc, cur, sent, outcome,
                   returned, ret, events, replans, reevaluations, objs, dispatched,
                   queue, published, dequeued, producer,
                   writers>>

\* process_message with planning disabled: the inbound message is stored and the
\* AttributeError of self._generate_direct_response leaves process_message
\* (agent.py:370-414)
ProcessMessageDirect ==
    /\ pc = "agent"
    /\ ~config.planning_enabled
    /\ Len(added) < MaxAdds
    /\ \E sender \in Senders :
          LET inbound == MessageEntry(Len(added) + 1, sender)
              r == short_term_add(entries, entry_map, inbound)
          IN  /\ entries' = r.entries
              /\ entry_map' = r.entry_map
              /\ added' = Append(added, inbound)
              /\ snapshot' = get_conversation_history(r.entries)
              /\ lastCall' = [op |-> "process_message", sender |-> sender,
                              inbound |-> inbound, raised |-> "AttributeError",
                              response |-> NoEntry, before |-> Len(added)]
    /\ config' = set_current_date(config)
    /\ UNCHANGED <<engine, tools, errorHandlers, registered, log, queue, published, dequeued,
                   producer, writers>>

NextAgent ==
    \/ ProcessMessagePlanning
    \/ ProcessMessageDirect

SpecAgent == InitAgent /\ [][NextAgent]_vars

(***************************************************************************)
(* PlanningEngine._resolve_placeholders on one argument string             *)
(* (engine.py:59-93), with results that may themselves hold text of the    *)
(* form {step_N_result}.                                                   *)
(***************************************************************************)
\* length of the longest argument string
MaxTokens == 3

\* what an argument string is made of: text, {step_1_result}, {step_2_result}
ArgTokens == {Lit("a"), Ph(1), Ph(2)}

ArgStrings == UNION {[1..n -> ArgTokens] : n \in 1..MaxTokens}

\* results of executed steps: plain text, a number, text that holds a placeholder
ResolveResults ==
    {S("A"), IntV(5), Str(<<Lit("x "), Ph(1)>>), Str(<<Ph(2), Lit("!")>>)}

\* executed_steps of two steps with these results
ExecutedWith(r1, r2) ==
    <<[PlanStep("s1", <<"Echo">>, "echo", EmptyMap, <<>>)
          EXCEPT !.status = COMPLETED, !.result = r1],
      [PlanStep("s2", <<"Echo">>, "echo", EmptyMap, <<>>)
          EXCEPT !.status = COMPLETED, !.result = r2]>>

InitResolve ==
    /\ hasLlm = FALSE
    /\ tools = {"code_runner", "package_installer", "echo"}
    /\ errorHandlers = get_error_handlers
    /\ steps = <<>>
    /\ planStatus = PENDING
    /\ \E r1, r2 \in ResolveResults : executed = ExecutedWith(r1, r2)
    /\ pc = "resolve"
    /\ cur = 0
    /\ \E toks \in ArgStrings :
          sent = [step_id |-> "", raw_args |-> Str(toks), tool_args |-> Str(toks),
                  executed |-> executed]
    /\ outcome = NoExecution
    /\ returned = NoReturn
    /\ ret = "none"
    /\ events = <<>>
    /\ nextId = 0
    /\ replans = 0
    /\ reevaluations = <<>>
    /\ objs = <<>>
    /\ dispatched = <<>>
    /\ registered = AgentTools
    /\ log = AgentTools
    /\ lastCall = NoCall
    /\ queue = <<>>
    /\ published = <<>>
    /\ dequeued = <<>>
    /\ producer = Ready
    /\ InitMemory

\* self._resolve_placeholders(step.tool_args, self.executed_steps) (engine.py:152)
ResolvePlaceholders ==
    /\ pc = "resolve"
    /\ sent' = [sent EXCEPT !.tool_args = _resolve_placeholders(sent.raw_args, executed)]
    /\ pc' = "resolved"
    /\ UNCHANGED <<fixed, steps, planStatus, executed, cur, outcome, returned, ret,
                   events, nextId, replans, reevaluations, objs, dispatched>>

NextResolve == ResolvePlaceholders

SpecResolve == InitResolve /\ [][NextResolve]_vars

(***************************************************************************)
(* Plan.to_dict and Plan.from_dict (planning/base.py:57-107, 211-244): a   *)
(* plan is turned into its dictionary and rebuilt from it.                 *)
(***************************************************************************)
\* the steps a plan is built of: with or without a description, in every state a
\* step can be left in
RoundTripSteps(step_id) ==
    {[PlanStep(step_id, d, "echo", MapV(<<"text">>, <<S("hello")>>), <<>>)
         EXCEPT !.status = st, !.result = r] :
        d \in {<<"Echo">>, <<>>}, st \in {PENDING, COMPLETED, FAILED},
        r \in {Null, S("hello")}}

RoundTripPlans ==
    {[id |-> "p1", goal |-> g, steps |-> ss, status |-> st, metadata |-> md] :
        g \in {<<"Say", "hello">>, <<>>},
        ss \in UNION {{s \in [1..n -> UNION {RoundTripSteps(InitialIds[i]) : i \in 1..n}] :
                          \A i \in 1..n : s[i].id = InitialIds[i]} : n \in 0..MaxSteps},
        st \in {PENDING, COMPLETED},
        md \in {EmptyMap, MapV(<<"reasoning">>, <<S("because")>>)}}

\* Plan.to_dict (planning/base.py:211-219)
Plan_to_dict(plan) ==
    [id |-> plan.id, goal |-> plan.goal,
     steps |-> [i \in 1..Len(plan.steps) |-> to_dict(plan.steps[i])],
     status |-> plan.status, metadata |-> plan.metadata]

\* Plan.from_dict (planning/base.py:221-244) of a dictionary that has every key:
\* each step dictionary goes through PlanStep.from_dict, a status that is no
\* value of PlanStatus becomes PENDING
Plan_from_dict(data) ==
    [id |-> data.id, goal |-> data.goal,
     steps |-> [i \in 1..Len(data.steps) |-> from_dict(data.steps[i].id, data.steps[i])],
     status |-> IF data.status \in PlanStatus THEN data.status ELSE PENDING,
     metadata |-> data.metadata]

InitRoundTrip ==
    /\ hasLlm = FALSE
    /\ tools = {"code_runner", "package_installer", "echo"}
    /\ errorHandlers = get_error_handlers
    /\ \E plan \in RoundTripPlans :
          /\ steps = plan.steps
          /\ planStatus = plan.status
          /\ lastCall = [op |-> "plan", plan |-> plan]
    /\ executed = <<>>
    /\ pc = "plan"
    /\ cur = 0
    /\ sent = NoDispatch
    /\ outcome = NoExecution
    /\ returned = NoReturn
    /\ ret = "none"
    /\ events = <<>>
    /\ nextId = 0
    /\ replans = 0
    /\ reevaluations = <<>>
    /\ objs = <<>>
    /\ dispatched = <<>>
    /\ registered = AgentTools
    /\ log = AgentTools
    /\ queue = <<>>
    /\ published = <<>>
    /\ dequeued = <<>>
    /\ producer = Ready
    /\ InitMemory

\* Plan.from_dict(plan.to_dict())
RoundTrip ==
    /\ pc = "plan"
    /\ lastCall' = [op |-> "from_dict", plan |-> lastCall.plan,
                    restored |-> Plan_from_dict(Plan_to_dict(lastCall.plan))]
    /\ pc' = "restored"
    /\ UNCHANGED <<memory, hasLlm, steps, planStatus, executed, cur, sent, outcome,
                   returned, ret, events, nextId, replans, reevaluations, objs, dispatched, tools, errorHandlers, registered, log, queue,
                   published, dequeued, producer>>

NextRoundTrip == RoundTrip

SpecRoundTrip == InitRoundTrip /\ [][NextRoundTrip]_vars

(***************************************************************************)
(* AgentCore.can_accomplish (agent.py:421-461): a plan is created for the  *)
(* task and its tool names are looked up in the registry.                  *)
(***************************************************************************)
\* tools_needed (agent.py:444-447): the tool name of every step that names a tool
\* the registry does not hold, one entry per step
RECURSIVE tools_needed(_, _)
tools_needed(plan_steps, reg_tools) ==
    IF plan_steps = <<>> THEN <<>>
    ELSE (IF Head(plan_steps).tool_name # NoTool
             /\ get_tool(reg_tools, Head(plan_steps).tool_name) = NoToolObject
          THEN <<Head(plan_steps).tool_name>> ELSE <<>>)
         \o tools_needed(Tail(plan_steps), reg_tools)

\* can_accomplish that answers from the plan alone: every named tool counts as missing
can_accomplish_without_registry(plan_steps, reg_tools) ==
    LET needed == SelectSeq([i \in 1..Len(plan_steps) |-> plan_steps[i].tool_name],
                            LAMBDA name : name # NoTool)
    IN  [op |-> "can_accomplish", can_accomplish |-> needed = <<>>, missing_tools |-> needed]

\* the dictionary can_accomplish returns (agent.py:449-461); missing_tools is
\* << >> where the dictionary has no such key
can_accomplish(plan_steps, reg_tools) ==
    LET needed == tools_needed(plan_steps, reg_tools)
    IN  [op |-> "can_accomplish", can_accomplish |-> needed = <<>>, missing_tools |-> needed]

\* the registries the agent may have: empty, or with the agent's tools
InitCanAccomplish ==
    /\ hasLlm = TRUE
    /\ tools = {}
    /\ errorHandlers = <<>>
    /\ steps = <<>>
    /\ planStatus = PENDING
    /\ executed \in EarlierExecuted
    /\ pc = "agent"
    /\ cur = 0
    /\ sent = NoDispatch
    /\ outcome = NoExecution
    /\ returned = NoReturn
    /\ ret = "none"
    /\ events = <<>>
    /\ nextId = 0
    /\ replans = 0
    /\ reevaluations = <<>>
    /\ objs = <<>>
    /\ dispatched = <<>>
    /\ registered \in {<<>>, AgentTools}
    /\ log = registered
    /\ lastCall = NoCall
    /\ queue = <<>>
    /\ published = <<>>
    /\ dequeued = <<>>
    /\ producer = Ready
    /\ InitMemory

\* can_accomplish(task): PlanningEngine.create_plan (engine.py:95-102) and the
\* look-up of the plan's tool names (agent.py:440-461)
CanAccomplish ==
    /\ pc = "agent"
    /\ \E content \in PlanContents :
          /\ steps' = create_plan(generate_plan(content), nextId)
          /\ nextId' = nextId + IdsDrawn(generate_plan(content))
    /\ planStatus' = PENDING
    /\ executed' = <<>>
    /\ lastCall' = can_accomplish(steps', registered)
    /\ pc' = "answered"
    /\ UNCHANGED <<memory, hasLlm, tools, errorHandlers, cur, sent, outcome, returned, ret,
                   events, replans, reevaluations, objs, dispatched,
                   registered, log, queue, published, dequeued, producer>>

NextCanAccomplish == CanAccomplish

SpecCanAccomplish == InitCanAccomplish /\ [][NextCanAccomplish]_vars

(***************************************************************************)
(* AgentCore._generate_success_response and _generate_failure_response     *)
(* (agent.py:473-747) on a plan that execute_plan has returned from.       *)
(***************************************************************************)
\* plan.metadata has no key 'reasoning'; the key holds None (engine.py:184, 247
\* after a re-plan of a plan without reasoning)
NoReasoning == [has |-> FALSE, none |-> FALSE, text |-> <<>>]

NoneReasoning == [has |-> TRUE, none |-> TRUE, text |-> <<>>]

Reasoning(text) == [has |-> TRUE, none |-> FALSE, text |-> text]

\* the phrases of agent.py:500-503, as runs of words
deliberate_phrases ==
    {<<"no", "tools", "needed">>, <<"no", "tool", "required">>, <<"language", "generation">>,
     <<"can", "be", "accomplished", "directly">>, <<"without", "using", "tools">>,
     <<"language", "task">>, <<"creative">>, <<"explanation">>, <<"general", "knowledge">>,
     <<"straightforward">>, <<"counting">>, <<"analysis">>, <<"directly">>}

\* tool_steps (agent.py:490)
tool_steps(plan_steps) == SelectSeq(plan_steps, LAMBDA step : step.tool_name # NoTool)

\* deliberate_no_tools (agent.py:493-504), evaluated when the reasoning is a text
deliberate_no_tools(plan_steps, reasoning) ==
    /\ reasoning.has
    /\ tool_steps(plan_steps) = <<>>
    /\ \E phrase \in deliberate_phrases : Contains(phrase, Lower(reasoning.text))

\* non_tool_step_with_result (agent.py:507-511): position of the first step
\* without a tool whose result is truthy and not the fixed text, 0 for None
non_tool_step_with_result(plan_steps) ==
    LET hits == {i \in 1..Len(plan_steps) :
                    /\ plan_steps[i].tool_name = NoTool
                    /\ Truthy(plan_steps[i].result)
                    /\ plan_steps[i].result # S("Step completed successfully")}
    IN  IF hits = {} THEN 0 ELSE CHOOSE i \in hits : \A j \in hits : i <= j

\* the fixed message of agent.py:518-522
GenericMessage == S("I understand your request. However, ...")

\* llm_manager.generate_response(prompt, context): what the LM answers
LmAnswer == S("LM answer")

CountingGoal(goal) ==
    Contains(<<"count">>, Lower(goal)) \/ Contains(<<"how", "many">>, Lower(goal))

\* _generate_success_response (agent.py:473-536): who produced the response, the
\* prompt the LM was given, the response
_generate_success_response(goal, plan_steps, reasoning) ==
    IF reasoning.has /\ reasoning.none /\ tool_steps(plan_steps) = <<>>
    THEN [by |-> "raised", prompt |-> <<>>, text |-> S("AttributeError")]
    ELSE IF non_tool_step_with_result(plan_steps) # 0
    THEN [by |-> "step", prompt |-> <<>>,
          text |-> plan_steps[non_tool_step_with_result(plan_steps)].result]
    ELSE IF tool_steps(plan_steps) = <<>> /\ ~deliberate_no_tools(plan_steps, reasoning)
    THEN [by |-> "template", prompt |-> <<>>, text |-> GenericMessage]
    ELSE IF tool_steps(plan_steps) = <<>> /\ CountingGoal(goal)
    THEN [by |-> "lm",
          prompt |-> <<"Please", "directly", "answer", "this", "question:">> \o goal,
          text |-> LmAnswer]
    ELSE [by |-> "lm", prompt |-> goal, text |-> LmAnswer]

\* the steps of a plan that execute_plan completed: a tool step, a step without
\* tool that is no generation step, a generation step with the LM's text or
\* with an empty answer
CompletedSteps ==
    {[PlanStep("s", <<"Echo">>, "echo", MapV(<<"text">>, <<S("hi")>>), <<>>)
         EXCEPT !.status = COMPLETED, !.result = S("hello")],
     [PlanStep("s", <<"Think">>, NoTool, EmptyMap, <<>>)
         EXCEPT !.status = COMPLETED, !.result = S("Step completed successfully")],
     [PlanStep("s", <<"Write", "poem">>, NoTool, EmptyMap, <<>>)
         EXCEPT !.status = COMPLETED, !.result = S("a poem")]}

WithIds(plan_steps) == [i \in 1..Len(plan_steps) |-> [plan_steps[i] EXCEPT !.id = InitialIds[i]]]

CompletedPlans == {WithIds(s) : s \in UNION {[1..n -> CompletedSteps] : n \in 0..MaxSteps}}

Goals == {<<"Say", "hello">>, <<"how", "many", "words">>}

Reasonings ==
    {NoReasoning, NoneReasoning, Reasoning(<<"use", "the", "echo", "tool">>),
     Reasoning(<<"a", "creative", "task">>)}

\* the fixed message of agent.py:743-746
GenericFailureMessage == S("I'm sorry, but I encountered an issue ...")

\* position of the first step of the plan that is FAILED, 0 for None
\* (agent.py:555-560)
first_failed_step(plan_steps) ==
    LET hits == {i \in 1..Len(plan_steps) : plan_steps[i].status = FAILED}
    IN  IF hits = {} THEN 0 ELSE CHOOSE i \in hits : \A j \in hits : i <= j

\* what the LM answers to the alternative prompt: text that is no JSON object, or
\* an object with its fields
AltAnswers ==
    {[parsed |-> FALSE, description |-> <<>>, tool_name |-> NoTool, tool_args |-> EmptyMap],
     [parsed |-> TRUE, description |-> <<"Echo">>, tool_name |-> "echo",
      tool_args |-> MapV(<<"text">>, <<S("hi")>>)],
     [parsed |-> TRUE, description |-> <<"Fetch">>, tool_name |-> "ghost",
      tool_args |-> MapV(<<"url">>, <<S("u")>>)]}

\* the steps the predefined recovery adds (agent.py:580-605)
PredefinedRecovery(recovery, failed_step, n0) ==
    <<PlanStep(Uuid(n0 + 1), recovery.description, recovery.tool_name, recovery.tool_args,
               <<>>)>>
    \o (IF Contains(<<"Install", "missing">>, recovery.description)
           /\ recovery.tool_name = "package_installer"
        THEN <<PlanStep(Uuid(n0 + 2), <<"Retry", "the", "original", "step">>,
                        failed_step.tool_name, failed_step.tool_args, <<>>)>>
        ELSE <<>>)

\* the steps the LM-assisted recovery adds (agent.py:607-701): the analysis step,
\* completed with the LM's analysis, and the alternative step
LmRecovery(reg_names, goal, failed_step, alt, n0) ==
    <<[PlanStep(Uuid(n0 + 1),
                <<"Analyze", "failure", "and", "find", "alternative", "approach", "for:">>
                \o failed_step.description, NoTool, EmptyMap, <<>>)
          EXCEPT !.status = COMPLETED, !.result = LmAnswer],
      IF ~alt.parsed
      THEN PlanStep(Uuid(n0 + 2), <<"Analyze", "the", "error", "and", "suggest">> \o goal,
                    NoTool, EmptyMap, <<>>)
      ELSE IF alt.tool_name # NoTool /\ alt.tool_name \notin reg_names
      THEN PlanStep(Uuid(n0 + 2), <<"Analyze", "alternative", "ways", "to", "accomplish:">>
                                  \o goal, NoTool, EmptyMap, <<>>)
      ELSE PlanStep(Uuid(n0 + 2), alt.description, alt.tool_name, alt.tool_args, <<>>)>>

\* position of the first PENDING step, 0 when there is none: the step the loop
\* of agent.py:704-706 takes next
next_pending_step(plan_steps) ==
    LET hits == {i \in 1..Len(plan_steps) : plan_steps[i].status = PENDING}
    IN  IF hits = {} THEN 0 ELSE CHOOSE i \in hits : \A j \in hits : i <= j

\* the prompt of agent.py:728-738
FailurePrompt(goal, failed_step) ==
    <<"The", "following", "task", "failed:">> \o goal
    \o <<"The", "error", "occurred", "at", "step:">> \o failed_step.description

\* what is known of a response that is being composed
Composing(call, before) ==
    [op |-> "failure_response", goal |-> call.goal, reasoning |-> call.reasoning,
     before |-> before, calls |-> <<>>, executed |-> 0, success |-> FALSE,
     by |-> "nobody", prompt |-> <<>>, text |-> Null]

\* the step at which execute_plan gave up, with the error the executor stored
FailedToolStep(error) ==
    [PlanStep("s", <<"Run", "code">>, "code_runner", MapV(<<"code">>, <<S("c0")>>), <<>>)
        EXCEPT !.status = FAILED, !.error = error]

\* the plans execute_plan returns false on: a failed step, alone, behind a
\* completed step or before a step that was never started; and a plan whose only
\* step waits for a step that does not exist
FailedPlans ==
    {WithIds(s) :
        s \in UNION {{<<FailedToolStep(e)>>,
                       <<CHOOSE c \in CompletedSteps : c.tool_name = "echo", FailedToolStep(e)>>,
                       <<FailedToolStep(e),
                         PlanStep("s", <<"Echo">>, "echo", MapV(<<"text">>, <<S("hi")>>),
                                  <<>>)>>} : e \in Errors}
              \cup {<<PlanStep("s", <<"Think">>, NoTool, EmptyMap, <<"nowhere">>)>>}}

\* how the tools and the LM behave while the response is composed
Behaviours ==
    {[o |-> o, fix |-> <<Lit("c1")>>, gen |-> <<Lit("a poem")>>] : o \in Outcomes}

\* the agent when execute_plan has returned (agent.py:402-411)
InitResponse ==
    /\ hasLlm = TRUE
    /\ registered = AgentTools
    /\ tools = ToolNamesOf(registered)
    /\ errorHandlers = get_error_handlers
    /\ log = registered
    /\ ret \in {"true", "false"}
    /\ steps \in (IF ret = "true" THEN CompletedPlans ELSE FailedPlans)
    /\ planStatus = update_status(steps)
    /\ \E goal \in Goals, reasoning \in Reasonings :
          lastCall = [op |-> "execute_plan", goal |-> goal, reasoning |-> reasoning]
    /\ executed = <<>>
    /\ pc = "agent"
    /\ cur = 0
    /\ sent = NoDispatch
    /\ outcome = NoExecution
    /\ returned = NoReturn
    /\ events = <<>>
    /\ nextId = 0
    /\ replans = 0
    /\ reevaluations = <<>>
    /\ objs = <<>>
    /\ dispatched = <<>>
    /\ queue = <<>>
    /\ published = <<>>
    /\ dequeued = <<>>
    /\ producer = Ready
    /\ InitMemory

\* response = self._generate_success_response(plan) (agent.py:408-409)
SuccessResponse ==
    /\ pc = "agent"
    /\ ret = "true"
    /\ LET r == _generate_success_response(lastCall.goal, steps, lastCall.reasoning)
       IN  lastCall' = [op |-> "success_response", goal |-> lastCall.goal,
                        reasoning |-> lastCall.reasoning, before |-> steps,
                        calls |-> <<>>, executed |-> 0, success |-> TRUE,
                        by |-> r.by, prompt |-> r.prompt, text |-> r.text]
    /\ pc' = "responded"
    /\ UNCHANGED <<memory, hasLlm, executed, cur, sent, outcome, returned, ret, replans,
                   reevaluations, objs, dispatched, steps, planStatus, events, nextId, tools,
                   errorHandlers, registered, log, queue, published, dequeued, producer>>

\* _generate_failure_response on a plan without a FAILED step (agent.py:555-560,
\* 739-746)
NoFailedStep ==
    /\ pc = "agent"
    /\ ret = "false"
    /\ first_failed_step(steps) = 0
    /\ lastCall' = [Composing(lastCall, steps) EXCEPT
                       !.by = "template", !.text = GenericFailureMessage]
    /\ pc' = "responded"
    /\ UNCHANGED <<memory, hasLlm, executed, cur, sent, outcome, returned, ret, replans,
                   reevaluations, objs, dispatched, steps, planStatus, events, nextId, tools,
                   errorHandlers, registered, log, queue, published, dequeued, producer>>

\* _generate_failure_response up to the loop (agent.py:555-701): the recovery
\* steps are added to the plan, by the registry's handler or with the LM's help
AddRecoverySteps ==
    /\ pc = "agent"
    /\ ret = "false"
    /\ first_failed_step(steps) # 0
    /\ LET failed_step == steps[first_failed_step(steps)]
           error_details == IF failed_step.error # NoError THEN failed_step.error
                            ELSE <<"Unknown error">>
           recovery == create_recovery_step(errorHandlers, error_details,
                                            to_dict(failed_step))
       IN  \E alt \in (IF recovery.found THEN {CHOOSE a \in AltAnswers : ~a.parsed}
                        ELSE AltAnswers) :
              steps' = steps \o (IF recovery.found
                                 THEN PredefinedRecovery(recovery, failed_step, nextId)
                                 ELSE LmRecovery(tools, lastCall.goal, failed_step, alt,
                                                 nextId))
    /\ nextId' = nextId + (Len(steps') - Len(steps))
    /\ lastCall' = Composing(lastCall, steps)
    /\ pc' = "recovery"
    /\ UNCHANGED <<memory, hasLlm, executed, cur, sent, outcome, returned, ret, replans,
                   reevaluations, objs, dispatched, planStatus, events, tools,
                   errorHandlers, registered, log, queue, published, dequeued, producer>>

\* one turn of the loop of agent.py:704-721: the next PENDING step is handed to
\* the executor and ends COMPLETED or FAILED; a retry step that succeeds ends
\* the call with the success response
ExecuteRecoveryStep ==
    /\ pc = "recovery"
    /\ next_pending_step(steps) # 0
    /\ \E b \in Behaviours :
          LET i == next_pending_step(steps)
              r == execute_step(tools, errorHandlers, [steps[i] EXCEPT !.status = IN_PROGRESS],
                                b.o, b.o, b.o, b.fix, b.gen)
              retried == r.success
                         /\ Contains(<<"Retry", "the", "original">>, steps[i].description)
          IN  /\ steps' = [steps EXCEPT
                             ![i] = [r.step EXCEPT !.status = IF r.success THEN COMPLETED
                                                              ELSE FAILED]]
              /\ events' = events \o r.events
              /\ pc' = IF retried THEN "responded" ELSE "recovery"
              /\ LET sr == _generate_success_response(lastCall.goal, steps',
                                                      lastCall.reasoning)
                 IN  lastCall' = [lastCall EXCEPT
                                     !.calls = @ \o r.calls,
                                     !.executed = @ + 1,
                                     !.success = @ \/ r.success,
                                     !.by = IF retried THEN sr.by ELSE @,
                                     !.prompt = IF retried THEN sr.prompt ELSE @,
                                     !.text = IF retried THEN sr.text ELSE @]
    /\ UNCHANGED <<memory, hasLlm, executed, cur, sent, outcome, returned, ret, replans,
                   reevaluations, objs, dispatched, planStatus, nextId, tools,
                   errorHandlers, registered, log, queue, published, dequeued, producer>>

\* the end of _generate_failure_response (agent.py:723-738): the success
\* response if a recovery step succeeded, the LM's explanation of the failure if
\* none did
ComposeFailureResponse ==
    /\ pc = "recovery"
    /\ next_pending_step(steps) = 0
    /\ LET sr == _generate_success_response(lastCall.goal, steps, lastCall.reasoning)
           failed_step == lastCall.before[first_failed_step(lastCall.before)]
       IN  lastCall' = IF lastCall.success
                       THEN [lastCall EXCEPT !.by = sr.by, !.prompt = sr.prompt,
                                             !.text = sr.text]
                       ELSE [lastCall EXCEPT
                                !.by = "lm",
                                !.prompt = FailurePrompt(lastCall.goal, failed_step),
                                !.text = LmAnswer]
    /\ pc' = "responded"
    /\ UNCHANGED <<memory, hasLlm, executed, cur, sent, outcome, returned, ret, replans,
                   reevaluations, objs, dispatched, steps, planStatus, events, nextId, tools,
                   errorHandlers, registered, log, queue, published, dequeued, producer>>

NextResponse ==
    \/ SuccessResponse
    \/ NoFailedStep
    \/ AddRecoverySteps
    \/ ExecuteRecoveryStep
    \/ ComposeFailureResponse

SpecResponse == InitResponse /\ [][NextResponse]_vars

(***************************************************************************)
(* The properties.  The definitions below restate the specification's      *)
(* wording on its own terms; the formulas compare them with what the       *)
(* modelled code does.                                                     *)
(***************************************************************************)
\* the statuses of a step list
Statuses(plan_steps) == [i \in 1..Len(plan_steps) |-> plan_steps[i].status]

\* the status fold of the plan model: the first matching row wins
StatusFold(sts) ==
    IF \E i \in 1..Len(sts) : sts[i] = FAILED THEN FAILED
    ELSE IF \A i \in 1..Len(sts) : sts[i] = COMPLETED THEN COMPLETED
    ELSE IF \E i \in 1..Len(sts) : sts[i] = IN_PROGRESS THEN IN_PROGRESS
    ELSE IF \E i \in 1..Len(sts) : sts[i] = PENDING THEN PENDING
    ELSE IN_PROGRESS

\* execute_next_step has returned and no other call is under way, or execute_plan
\* has returned
AtReturn == pc \in {"loop", "done"} /\ returned.kind # "nothing"

\* C1: whenever execute_next_step returns, and when execute_plan returns, the
\* plan's status equals the status fold applied to the plan's current list of
\* step statuses.
C1_StatusIsFoldAtReturn ==
    AtReturn => planStatus = StatusFold(Statuses(steps))

DependencyOpen(plan_steps, i) ==
    \E k \in 1..Len(plan_steps[i].depends_on) :
        \/ \A j \in 1..Len(plan_steps) : plan_steps[j].id # plan_steps[i].depends_on[k]
        \/ \E j \in 1..Len(plan_steps) :
              /\ plan_steps[j].id = plan_steps[i].depends_on[k]
              /\ \A h \in 1..(j - 1) : plan_steps[h].id # plan_steps[i].depends_on[k]
              /\ plan_steps[j].status # COMPLETED

\* the status rows of the older package's Plan for a list with steps
CoreFold(plan_steps) ==
    LET sts == Statuses(plan_steps)
    IN  IF \A i \in 1..Len(sts) : sts[i] = COMPLETED THEN COMPLETED
        ELSE IF \E i \in 1..Len(sts) : sts[i] = FAILED THEN FAILED
        ELSE IF \E i \in 1..Len(sts) : sts[i] = IN_PROGRESS THEN IN_PROGRESS
        ELSE IF \E i \in 1..Len(sts) : sts[i] = PENDING /\ ~DependencyOpen(plan_steps, i)
        THEN IN_PROGRESS
        ELSE BLOCKED

UniqueIds(plan_steps) ==
    \A i, j \in 1..Len(plan_steps) : plan_steps[i].id = plan_steps[j].id => i = j

\* step i is PENDING and every id in its depends_on names a COMPLETED step
Executable(plan_steps, i) ==
    /\ plan_steps[i].status = PENDING
    /\ \A k \in 1..Len(plan_steps[i].depends_on) :
          \E j \in 1..Len(plan_steps) :
              /\ plan_steps[j].id = plan_steps[i].depends_on[k]
              /\ plan_steps[j].status = COMPLETED

C4_FailureEndsThePlan ==
    [][ /\ (pc = "post" /\ ~outcome.success) =>
              /\ steps'[cur].status = FAILED
              /\ planStatus' = FAILED
              /\ ret' = "false"
              /\ pc' = "done"
        /\ pc = "done" => UNCHANGED vars
        /\ ret' = "true" => (pc' = "done" /\ planStatus' = COMPLETED) ]_vars

\* execute_plan returned false on a failed tool step while a later step of the
\* plan is still PENDING
C4_Witness ==
    /\ pc = "done"
    /\ ret = "false"
    /\ ~hasLlm
    /\ returned.kind = "executed"
    /\ returned.step = 1
    /\ Len(steps) = 2
    /\ steps[1].status = FAILED
    /\ steps[1].error # NoError
    /\ steps[2].status = PENDING
    /\ planStatus = FAILED

\* the placeholder names one of the executed steps
Known(tok, executed_steps) == tok.k = "ph" /\ tok.n \in 1..Len(executed_steps)

\* what an embedded placeholder is replaced by: the result itself if it is a
\* string, its JSON encoding if not
EmbedText(r) == IF r.t = "str" THEN r.toks ELSE JsonDumps(r)

RECURSIVE Substitute(_, _)
Substitute(toks, executed_steps) ==
    IF toks = <<>> THEN <<>>
    ELSE (IF Known(Head(toks), executed_steps)
          THEN EmbedText(executed_steps[Head(toks).n].result)
          ELSE <<Head(toks)>>)
         \o Substitute(Tail(toks), executed_steps)

\* placeholder resolution as specified, at any depth of maps and lists
RECURSIVE Resolved(_, _)
Resolved(data, executed_steps) ==
    CASE data.t = "str" ->
            IF Len(data.toks) = 1 /\ Known(data.toks[1], executed_steps)
            THEN executed_steps[data.toks[1].n].result
            ELSE Str(Substitute(data.toks, executed_steps))
      [] data.t = "dict" ->
            MapV(data.keys,
                 [i \in 1..Len(data.kids) |-> Resolved(data.kids[i], executed_steps)])
      [] data.t = "list" ->
            ListV([i \in 1..Len(data.kids) |-> Resolved(data.kids[i], executed_steps)])
      [] OTHER -> data

\* the registered tool of the dispatched step was invoked first with the
\* arguments of the dispatch
InvokedWithDispatchedArgs ==
    (pc = "post" /\ outcome.before.tool_name \in tools) =>
        /\ outcome.calls # <<>>
        /\ outcome.calls[1].tool_name = outcome.before.tool_name
        /\ outcome.calls[1].tool_args = sent.tool_args

\* C5: before dispatch every placeholder that names an executed step is replaced
\* by that step's result: by the raw value when it is the entire string, by the
\* result itself (a string) or its JSON encoding (not a string) when embedded;
\* the tool is invoked with the resolved arguments.
C5_PlaceholdersResolved ==
    /\ pc \in {"exec", "post"} => sent.tool_args = Resolved(sent.raw_args, sent.executed)
    /\ InvokedWithDispatchedArgs

\* an out-of-range placeholder turned into ordinary text
Verbatim(tok, executed_steps) ==
    IF tok.k = "ph" /\ ~Known(tok, executed_steps)
    THEN [k |-> "lit", n |-> tok.n, c |-> "{step_N_result}"]
    ELSE tok

\* the value with every out-of-range placeholder turned into ordinary text
RECURSIVE Freeze(_, _)
Freeze(data, executed_steps) ==
    CASE data.t = "str" ->
            Str([i \in 1..Len(data.toks) |-> Verbatim(data.toks[i], executed_steps)])
      [] data.t \in {"dict", "list"} ->
            [data EXCEPT !.kids = [i \in 1..Len(data.kids) |->
                                      Freeze(data.kids[i], executed_steps)]]
      [] OTHER -> data

\* the out-of-range placeholders of a value, in reading order
RECURSIVE OutOfRange(_, _)
OutOfRange(data, executed_steps) ==
    CASE data.t = "str" ->
            SelectSeq(data.toks, LAMBDA tok : tok.k = "ph" /\ ~Known(tok, executed_steps))
      [] data.t \in {"dict", "list"} ->
            LET RECURSIVE Collect(_)
                Collect(i) == IF i = 0 THEN <<>>
                              ELSE Collect(i - 1) \o OutOfRange(data.kids[i], executed_steps)
            IN  Collect(Len(data.kids))
      [] OTHER -> <<>>

\* C6: an out-of-range placeholder is left verbatim, whole string or embedded;
\* the rest of the arguments is resolved as if the placeholder were ordinary text
\* and the step is still handed to the executor and its tool invoked.
C6_OutOfRangeLeftVerbatim ==
    /\ pc \in {"exec", "post"} =>
          /\ OutOfRange(sent.tool_args, sent.executed) = OutOfRange(sent.raw_args, sent.executed)
          /\ Freeze(sent.tool_args, sent.executed)
                = _resolve_placeholders(Freeze(sent.raw_args, sent.executed), sent.executed)
          /\ steps[cur].tool_args = sent.tool_args \/ outcome.lm_fix > 0
    /\ InvokedWithDispatchedArgs

\* the tool was invoked with arguments that keep {step_9_result} as a whole
\* string and {step_2_result} and {step_0_result} embedded, next to the resolved
\* {step_1_result}
C6_Witness ==
    /\ pc = "post"
    /\ Len(sent.executed) = 1
    /\ sent.executed[1].result = S("hello")
    /\ Len(outcome.calls) = 1
    /\ outcome.calls[1].tool_name = "echo"
    /\ outcome.calls[1].tool_args =
          MapV(<<"text", "more">>,
               <<Str(<<Lit("got "), Lit("hello"), Lit(" and "), Ph(2)>>),
                 ListV(<<Str(<<Ph(9)>>), Str(<<Ph(0), Lit("!")>>),
                         MapV(<<"k">>, <<S("hello")>>)>>)>>)

\* the step execute_next_step selects
Selected == get_next_executable_step(steps)

\* some executed record has the same description, compared case-insensitively,
\* and the same tool name
MatchesExecuted(step) ==
    \E k \in 1..Len(executed) :
        /\ Lower(executed[k].description) = Lower(step.description)
        /\ executed[k].tool_name = step.tool_name

\* C7: a selected step that matches an executed record is marked COMPLETED with
\* the fixed result, without the executor or a tool being invoked and without an
\* event, and the engine continues; a step matching no record is never skipped.
C7_DuplicateSuppression ==
    [][ /\ (pc = "loop" /\ Selected # 0 /\ MatchesExecuted(steps[Selected])) =>
              /\ steps' = [steps EXCEPT
                              ![Selected].status = COMPLETED,
                              ![Selected].result =
                                  S("Step skipped to avoid duplication of previous step")]
              /\ pc' = "loop"
              /\ UNCHANGED <<events, outcome, sent, executed, ret>>
        /\ (pc = "loop" /\ Selected # 0 /\ ~MatchesExecuted(steps[Selected])) =>
              /\ pc' = "exec"
              /\ cur' = Selected
              /\ steps'[Selected].status = IN_PROGRESS ]_vars

\* a step whose description differs from an executed record only in case was
\* skipped
C7_Witness ==
    /\ returned.kind = "duplicate"
    /\ pc = "loop"
    /\ Len(executed) = 1
    /\ executed[1].description = <<"Run", "code">>
    /\ steps[returned.step].description = <<"RUN", "code">>
    /\ steps[returned.step].status = COMPLETED
    /\ steps[returned.step].result = S("Step skipped to avoid duplication of previous step")
    /\ events = <<"tool_input", "tool_output">>

\* the first invocation of the step's tool returned a failure
FirstCallFailed == outcome.calls # <<>> /\ outcome.calls[1].kind = "fail"

\* the registered handlers whose pattern the error text contains
HandlersFor(error_message) ==
    {h \in 1..Len(errorHandlers) : Contains(errorHandlers[h].pattern, error_message)}

\* C8: when a tool step fails with an error text containing a registered
\* pattern, the handler's recovery tool runs with the arguments of its
\* arg_generator; if it succeeds the original tool is invoked once more with the
\* same arguments and the step succeeds iff that retry succeeds; if it fails
\* there is no retry and the step fails.  The invocations are, in order:
\* original (fails), recovery, original (retry).
C8_HandlerRecovery ==
    (pc = "post" /\ FirstCallFailed /\ HandlersFor(outcome.calls[1].error) # {}) =>
        LET c == outcome.calls
            h == CHOOSE x \in HandlersFor(c[1].error) :
                    \A y \in HandlersFor(c[1].error) : x <= y
        IN  /\ Len(c) >= 2
            /\ c[1].tool_name = outcome.before.tool_name
            /\ c[1].tool_args = outcome.before.tool_args
            /\ c[2].tool_name = errorHandlers[h].tool
            /\ c[2].tool_args =
                  module_not_found_arg_generator(c[1].error, to_dict(outcome.before))
            /\ outcome.lm_fix = 0
            /\ IF c[2].kind = "ok"
               THEN /\ Len(c) = 3
                    /\ c[3].tool_name = c[1].tool_name
                    /\ c[3].tool_args = c[1].tool_args
                    /\ outcome.success <=> c[3].kind = "ok"
               ELSE /\ Len(c) = 2
                    /\ ~outcome.success

\* code_runner failed for the missing module foo, package_installer ran with
\* packages ["foo"], and the retry of code_runner succeeded
C8_Witness ==
    /\ pc = "post"
    /\ Len(outcome.calls) = 3
    /\ outcome.calls[1].tool_name = "code_runner"
    /\ outcome.calls[1].error = <<"ModuleNotFoundError:", "No module named", "'foo'">>
    /\ outcome.calls[2].tool_name = "package_installer"
    /\ outcome.calls[2].tool_args =
          MapV(<<"packages", "upgrade">>, <<ListV(<<S("foo")>>), BoolV(FALSE)>>)
    /\ outcome.calls[2].kind = "ok"
    /\ outcome.calls[3].tool_name = "code_runner"
    /\ outcome.calls[3].kind = "ok"
    /\ outcome.success

\* the invocations of the step's own tool, and the other (recovery) invocations
OwnCalls == {i \in 1..Len(outcome.calls) : outcome.calls[i].tool_name = outcome.before.tool_name}

RecoveryCalls == {i \in 1..Len(outcome.calls) : i \notin OwnCalls}

FirstFailure ==
    IF outcome.before.tool_name = NoTool THEN NoError
    ELSE IF outcome.before.tool_name \notin tools
    THEN <<"Tool", outcome.before.tool_name, "not found">>
    ELSE IF FirstCallFailed THEN outcome.calls[1].error
    ELSE NoError

\* the step's arguments have a field code whose value is a string
HasCodeString(args) ==
    \E i \in 1..Len(args.keys) : args.keys[i] = "code" /\ args.kids[i].t = "str"

\* C10: the LM is asked for a code fix exactly when the tool step failed, no
\* registered pattern occurs in the error text and tool_args has a string field
\* code; then code is replaced by the extracted code and the tool is retried
\* once with it; in every other case the arguments are unchanged.
C10_CodeFixPath ==
    pc = "post" =>
        /\ outcome.lm_fix = 1 <=>
              /\ FirstFailure # NoError
              /\ HandlersFor(FirstFailure) = {}
              /\ HasCodeString(outcome.before.tool_args)
        /\ outcome.lm_fix \in {0, 1}
        /\ outcome.lm_fix = 1 =>
              /\ steps[cur].tool_args =
                    SetKey(outcome.before.tool_args, "code", Str(<<Lit("c1")>>))
              /\ outcome.before.tool_name \in tools =>
                    /\ Len(outcome.calls) = 2
                    /\ outcome.calls[2].tool_name = outcome.before.tool_name
                    /\ outcome.calls[2].tool_args = steps[cur].tool_args
        /\ outcome.lm_fix = 0 => steps[cur].tool_args = outcome.before.tool_args

\* code_runner failed with a syntax error, the LM answered with a fenced block,
\* and the retry ran with the code taken out of the block
C10_Witness ==
    /\ pc = "post"
    /\ outcome.lm_fix = 1
    /\ outcome.fix = <<FencePython, Lit("c1"), Fence>>
    /\ Len(outcome.calls) = 2
    /\ outcome.calls[1].error = <<"SyntaxError:", "invalid syntax">>
    /\ outcome.calls[2].tool_args = MapV(<<"code">>, <<S("c1")>>)
    /\ outcome.calls[2].kind = "ok"
    /\ outcome.success

\* the engine is about to leave a successful step through the re-plan
\* (engine.py:165-260)
BeforeReplan == pc = "post" /\ outcome.success /\ hasLlm

\* the steps that are COMPLETED when the re-plan is asked for: the steps completed
\* earlier and the step just executed (engine.py:166)
CompletedBeforeReplan == {i \in 1..Len(steps) : steps[i].status = COMPLETED \/ i = cur}

\* C11: after any re-plan, whatever step list it returns, every step that was
\* COMPLETED before the re-plan is still in the plan with the same id and the
\* result it had before the re-plan.
C11_CompletedStepsKept ==
    [][BeforeReplan =>
          \A i \in CompletedBeforeReplan :
             \E j \in 1..Len(steps') :
                /\ steps'[j].id = steps[i].id
                /\ steps'[j].result = steps[i].result]_vars

\* C12: a COMPLETED or FAILED status is terminal: no engine operation changes the
\* status of a step that is COMPLETED or FAILED, and the step object that
\* execute_next_step completed and hands back after the re-plan is COMPLETED.
C12_TerminalStatus ==
    [][/\ ~BeforeReplan =>
             /\ Len(steps') = Len(steps)
             /\ \A i \in 1..Len(steps) :
                   steps[i].status \in {COMPLETED, FAILED} =>
                      steps'[i].status = steps[i].status
       /\ (BeforeReplan /\ pc' \in {"loop", "done"}) => returned'.status = COMPLETED]_vars

\* C13: a re-plan that fails or asks for no change (the LM call raises, its
\* answer cannot be parsed, or it reports that no adjustment is needed) leaves
\* the step list as it was: the same steps in the same order, the step just
\* executed COMPLETED with its result.
C13_FailedReplanKeepsPlan ==
    [][(BeforeReplan /\ replans' = replans) =>
          steps' = [steps EXCEPT ![cur].status = COMPLETED]]_vars

\* C14: when the step list adopted from the re-plan after a successful step has
\* no PENDING step, the engine leaves the plan COMPLETED and execute_plan goes
\* on to return true.
C14_NoPendingCompletesPlan ==
    [][(BeforeReplan /\ pc' \in {"loop", "done"}
        /\ \A j \in 1..Len(steps') : steps'[j].status # PENDING) =>
          /\ planStatus' = COMPLETED
          /\ pc' = "loop"]_vars

\* some tool invocation of the executed step ended with an exception
ToolRaised == \E c \in 1..Len(outcome.calls) : outcome.calls[c].kind = "raise"

\* C15: an exception raised inside step execution does not leave execute_plan:
\* whether a tool raised it or the plan reconstruction after the step, the step
\* becomes FAILED, the plan becomes FAILED, execute_plan returns false, and no
\* step is left IN_PROGRESS.
C15_ExceptionsFailTheStep ==
    [][/\ (pc = "post" /\ ToolRaised) =>
             /\ steps'[cur].status = FAILED
             /\ planStatus' = FAILED
             /\ ret' = "false"
       /\ pc = "post" =>
             /\ pc' # "raised"
             /\ \A i \in 1..Len(steps') : steps'[i].status # IN_PROGRESS]_vars

\* C16: every registry execution of a registered tool publishes one TOOL_INPUT
\* before the tool runs and one TOOL_OUTPUT after it, so the published events
\* alternate, starting with TOOL_INPUT, and every TOOL_INPUT has its TOOL_OUTPUT.
C16_ToolEventsAlternate ==
    /\ Len(events) % 2 = 0
    /\ \A i \in 1..Len(events) :
          events[i] = (IF i % 2 = 1 THEN "tool_input" ELSE "tool_output")

\* the tool object register_tool was last called with under a name
LastRegistered(name) ==
    LET at == {i \in 1..Len(log) : log[i].name = name}
    IN  IF at = {} THEN NoToolObject ELSE log[CHOOSE i \in at : \A j \in at : j <= i]

NamesRegistered == {log[i].name : i \in 1..Len(log)}

\* C17: after any sequence of register operations no two registered tools share
\* a name, get(name) returns the tool registered last under the name, all() holds
\* exactly one tool per registered name, and what a replaced entry contributed to
\* the registry (its error handlers) went with it: every handler of the registry
\* comes from a tool that is registered now.
C17_ReRegistrationReplaces ==
    /\ \A i, j \in 1..Len(registered) : registered[i].name = registered[j].name => i = j
    /\ lastCall.op = "get_tool" => lastCall.result = LastRegistered(lastCall.name)
    /\ lastCall.op = "get_all_tools" =>
          /\ Len(lastCall.result) = Cardinality(NamesRegistered)
          /\ \A name \in NamesRegistered :
                \E i \in 1..Len(lastCall.result) : lastCall.result[i] = LastRegistered(name)
    /\ \A h \in 1..Len(errorHandlers) :
          \E name \in NamesRegistered :
             \E k \in 1..Len(LastRegistered(name).handlers) :
                LastRegistered(name).handlers[k] = errorHandlers[h]

\* the handlers the registered tools offered, in the order register_tool met them
RECURSIVE Offered(_)
Offered(k) == IF k = 0 THEN <<>> ELSE Offered(k - 1) \o log[k].handlers

\* what find_recovery is to return for an error text and a failed step: nothing
\* for an empty text or a text no registered pattern occurs in; otherwise the
\* step of the matching pattern that was registered first, built from the
\* handler now registered for that pattern
ExpectedRecovery(error_text, failed_step) ==
    LET offered == Offered(Len(log))
        hits == {i \in 1..Len(offered) : Contains(offered[i].pattern, error_text)}
    IN  IF error_text = <<>> \/ hits = {}
        THEN [found |-> FALSE, description |-> <<>>, tool_name |-> NoTool,
              tool_args |-> EmptyMap]
        ELSE LET first == CHOOSE i \in hits : \A j \in hits : i <= j
                 same == {i \in hits : offered[i].pattern = offered[first].pattern}
                 handler == offered[CHOOSE i \in same : \A j \in same : j <= i]
             IN  [found |-> TRUE, description |-> handler.description,
                  tool_name |-> handler.tool,
                  tool_args |-> arg_generator(handler.arg_generator, error_text,
                                              failed_step)]

\* C18: find_recovery(error_text, failed_step) returns the recovery step of the
\* first pattern, in registration order, that occurs in error_text, with the
\* handler's tool name and the arguments arg_generator(error_text, failed_step);
\* it returns no step when no registered pattern occurs in error_text or
\* error_text is empty.
C18_FirstRegisteredPattern ==
    lastCall.op = "create_recovery_step" =>
        lastCall.result = ExpectedRecovery(lastCall.error_message, lastCall.failed_step)

\* two registered patterns occur in the error text; the one registered first (by
\* the package installer, later taken over by pip_helper) gives the step
C18_Witness ==
    /\ lastCall.op = "create_recovery_step"
    /\ log = <<PackageInstallerTool, ToolObject("pip_helper", "t4", PipHelperHandlers)>>
    /\ lastCall.error_message = <<"ImportError:", "No module named", "'foo'">>
    /\ lastCall.result.found
    /\ lastCall.result.tool_name = "pip_helper"
    /\ lastCall.result.description = <<"Ask", "pip", "again">>
    /\ lastCall.result.tool_args = lastCall.failed_step.tool_args

\* an add_* call starts in this step
Publishing == producer.state = "ready" /\ (published' # published \/ producer' # producer)

\* C19: publishing to a queue that already holds max_size events never blocks the
\* producer: the oldest queued event is dropped and the new one enqueued, so the
\* number of queued events never exceeds the capacity and the producer goes on
\* whether or not anybody consumes.
C19_OverflowDropsOldest ==
    [][Publishing =>
          /\ producer'.state = "ready"
          /\ Len(published') = Len(published) + 1
          /\ Len(queue') <= max_size
          /\ Len(queue) = max_size =>
                queue' = Append(Tail(queue), published'[Len(published')])]_vars

\* C20: for the events of a single producer, the order in which they are
\* dequeued is the order in which they were published.
C20_DequeueOrderIsPublishOrder ==
    /\ Len(dequeued) <= Len(published)
    /\ \A i \in 1..Len(dequeued) : dequeued[i] = published[i]

\* three events of different types were taken while a fourth was still queued,
\* after the queue had been full
C20_Witness ==
    /\ Len(dequeued) = 3
    /\ Len(queue) = 1
    /\ dequeued[1].event_type = "tool_input"
    /\ dequeued[2].event_type = "tool_output"
    /\ dequeued[3].event_type = "plan_generation"
    /\ lastCall.op = "get"

\* C24: step ids are unique within the plan in every reachable state: after the
\* plan was created and after any number of steps and re-plan reconstructions,
\* whatever ids the re-plan returns.
C24_StepIdsUnique == UniqueIds(steps)

\* C26: for every step the executor has executed, the result is null if and only
\* if the execution failed, if and only if the error is non-empty.
C26_ResultNullIffFailed ==
    pc = "post" =>
        /\ (steps[cur].result = Null) <=> ~outcome.success
        /\ ~outcome.success <=> (steps[cur].error # NoError)

\* the content of the LM that create_plan was called with holds an empty or a
\* structurally invalid plan: an object whose plan is the empty list, is not a
\* list, or is missing
EmptyOrInvalidPlan(content) ==
    /\ content.kind = "object"
    /\ \/ content.key # "plan"
       \/ content.value.t = "list" /\ content.value.entries = <<>>
       \/ content.value.t = "str"

\* the LM call or the parsing fails: the call raises, the text is not JSON, or an
\* exception leaves the code that reads the parsed content (the root is not an
\* object, the plan has no length, an entry of the list is not an object)
CallOrParsingFails(content) ==
    \/ content.kind \in {"raise", "text", "scalar", "list"}
    \/ /\ content.kind = "object"
       /\ content.key = "plan"
       /\ \/ content.value.t \in {"null", "int"}
          \/ content.value.t = "list" /\ FirstNotAnObject(content.value.entries) # 0

FailureDescriptions ==
    {<<"Error", "generating", "plan">>, <<"Error", "parsing", "plan">>,
     <<"Error", "generating", "plan,", "inform", "the", "user", "of", "the", "failure">>}

AcceptedShape(content) ==
    \/ content.kind = "object" /\ content.key \in {"plan", "steps"} /\ content.value.t = "list"
    \/ content.kind = "list"

\* C23: an object with key plan, an object with key steps and a bare root list
\* that carry the same list of steps all yield a plan with exactly those steps in
\* that order.
C23_ShapesYieldSamePlan ==
    (/\ lastCall.op = "create_plan"
     /\ AcceptedShape(lastCall.content)
     /\ Len(lastCall.content.value.entries) >= 1
     /\ FirstNotAnObject(lastCall.content.value.entries) = 0)
    => LET items == lastCall.content.value.entries
       IN  /\ Len(steps) = Len(items)
           /\ \A k \in 1..Len(items) :
                 items[k].description # <<>> => steps[k].description = items[k].description

\* C25: in every reachable plan the tool_args of every step is a map, never null
\* and never a value of another type.
C25_ToolArgsIsMap == \A i \in 1..Len(steps) : steps[i].tool_args.t = "dict"

\* the last min(capacity, n) of the n entries added, in insertion order
LastAdded ==
    SubSeq(added, Len(added) - (IF Len(added) < capacity THEN Len(added) ELSE capacity) + 1,
           Len(added))

Holds(mem_entries, entry_id) == \E k \in 1..Len(mem_entries) : mem_entries[k].id = entry_id

\* C27: after any sequence of n adds of messages and execution records the
\* short-term memory holds exactly the last min(K, n) entries added, in insertion
\* order, and lookup by id finds an entry if and only if it is one of those.
C27_RingBuffer ==
    pc = "memory" =>
        /\ entries = LastAdded
        /\ \A entry_id \in KnownIds :
              /\ short_term_get(entry_map, entry_id) # NoEntry <=> Holds(LastAdded, entry_id)
              /\ short_term_get(entry_map, entry_id) # NoEntry =>
                    \E k \in 1..Len(added) : added[k] = short_term_get(entry_map, entry_id)
        /\ lastCall.op = "get" => (lastCall.found # NoEntry <=> Holds(LastAdded, lastCall.id))

\* more entries were added than the memory holds, messages and execution records
\* among them, and the lookup of an evicted entry found nothing
C27_Witness ==
    /\ pc = "memory"
    /\ Len(added) > capacity
    /\ Len(entries) = capacity
    /\ \E k \in 1..Len(added) : added[k].entry_type = "execution"
    /\ \E k \in 1..Len(added) : added[k].entry_type = "message"
    /\ lastCall.op = "get"
    /\ lastCall.id = added[1].id
    /\ lastCall.found = NoEntry

\* the store after the adds of the entries in order, one after the other, on the
\* store the two calls found
RECURSIVE AddedInOrder(_)
AddedInOrder(order) ==
    IF order = <<>>
    THEN [entries |-> added, entry_map |-> EntrySet(added), raised |-> FALSE]
    ELSE LET before == AddedInOrder(SubSeq(order, 1, Len(order) - 1))
         IN  short_term_add(before.entries, before.entry_map, order[Len(order)])

\* the orders in which none, one or both of the two adds have happened as a whole
WholeAdds ==
    LET a == writers["w1"].entry
        b == writers["w2"].entry
    IN  {<<>>, <<a>>, <<b>>, <<a, b>>, <<b, a>>}

BothAdds == {order \in WholeAdds : Len(order) = 2}

\* C28: for every interleaving of two concurrent add_message / add_execution
\* calls the store ends as some sequential order of the two adds leaves it (list
\* and id index), no call raises, and a concurrent reader of the conversation
\* history sees the store as it was before or after a whole add.
C28_WritesSerialized ==
    pc = "writers" =>
        /\ \A w \in Writers : writers[w].at # "raised"
        /\ (\A w \in Writers : writers[w].at = "done") =>
              \E order \in BothAdds :
                 /\ entries = AddedInOrder(order).entries
                 /\ entry_map = AddedInOrder(order).entry_map
        /\ lastCall.op = "get_conversation_history" =>
              \E order \in WholeAdds :
                 snapshot = get_conversation_history(AddedInOrder(order).entries)

\* process_message has handled a request with planning enabled
Handled == pc = "agent" /\ lastCall.op = "process_message"

ToolEvents == {"tool_input", "tool_output"}

\* C21: for a request whose plan has no tool step, process_message publishes no
\* TOOL_INPUT and no TOOL_OUTPUT event, and the last event published for the
\* request is a FINAL_SOLUTION event.
C21_FinalSolutionLast ==
    (/\ Handled
     /\ Len(steps) >= 1
     /\ \A i \in 1..Len(steps) : steps[i].tool_name = NoTool)
    => /\ \A k \in 1..Len(events) : events[k] \notin ToolEvents
       /\ \A k \in 1..Len(published) : published[k].event_type \notin ToolEvents
       /\ Len(published) >= 1
       /\ published[Len(published)].event_type = "final_solution"

\* C29: every process_message call appends exactly two messages to Memory, the
\* inbound message with the given sender and then the response with sender
\* agent, and returns exactly the response it appended, with planning enabled or
\* disabled.
C29_TwoMessagesPerCall ==
    Handled =>
        /\ Len(added) = lastCall.before + 2
        /\ added[lastCall.before + 1] = MessageEntry(lastCall.before + 1, lastCall.sender)
        /\ added[lastCall.before + 2] = MessageEntry(lastCall.before + 2, "agent")
        /\ lastCall.raised = "none"
        /\ lastCall.response = added[lastCall.before + 2]

\* process_message is called again with the same message, on an agent without
\* tools and with planning disabled
CalledAgain ==
    /\ Handled
    /\ ~config.planning_enabled
    /\ registered = <<>>
    /\ lastCall'.op = "process_message"
    /\ lastCall'.sender = lastCall.sender

\* C30 as stated: with an empty tool set and planning disabled the second call
\* leaves Memory, the Tool Registry, the engine state and the Event Bus as the
\* first call left them.
C30_Idempotent ==
    [][CalledAgain =>
          UNCHANGED <<entries, entry_map, registered, tools, errorHandlers, engine, queue,
                      published, dequeued>>]_vars

\* C30: with an empty tool set and planning disabled the second call leaves the
\* Tool Registry, the engine state, the Event Bus and the configuration as the
\* first call left them; Memory is not left alone, the call adds its inbound
\* message to the short-term memory.
C30_IdempotentButMemory ==
    [][CalledAgain =>
          /\ UNCHANGED <<registered, tools, errorHandlers, log, engine, queue, published,
                         dequeued, config>>
          /\ added' = Append(added, MessageEntry(Len(added) + 1, lastCall.sender))
          /\ entries' = LastAdded']_vars

\* process_message was called twice with the same message on an agent without
\* tools and with planning disabled
C30_Witness ==
    /\ Handled
    /\ ~config.planning_enabled
    /\ registered = <<>>
    /\ Len(added) = 2
    /\ added[1].sender = added[2].sender
    /\ lastCall.before = 1
    /\ entries = added


InProgress(plan_steps) == {i \in 1..Len(plan_steps) : plan_steps[i].status = IN_PROGRESS}

\* C35: at every moment at most one step of the plan is IN_PROGRESS, and whenever
\* execute_next_step or execute_plan has returned no step of the plan is
\* IN_PROGRESS, steps introduced by a re-plan included.
C35_OneStepInProgress ==
    /\ Cardinality(InProgress(steps)) <= 1
    /\ pc \in {"loop", "done"} => InProgress(steps) = {}

\* the executor has reported success and execute_next_step is about to record it
StepHasSucceeded == pc = "post" /\ outcome.success

\* one call of reevaluate_plan is made by this step, after the step was recorded:
\* the list it is given is the engine's list, which ends with the step as completed
OneCallAfterRecording ==
    /\ Len(reevaluations') = Len(reevaluations) + 1
    /\ SubSeq(reevaluations', 1, Len(reevaluations)) = reevaluations
    /\ LET call == reevaluations'[Len(reevaluations')]
           n == Len(call.executed_steps)
       IN  /\ call.executed_steps = executed'
           /\ n = Len(executed) + 1
           /\ call.executed_steps[n] = to_dict([steps[cur] EXCEPT !.status = COMPLETED])

\* C36 as stated: re-planning is invoked exactly once after every successfully
\* executed step, after the step has been recorded, with an executed-steps list
\* that ends with that step, and at no other moment (not after a failed step, not
\* after a duplicate skip).
C36_ReplanAfterEverySuccess ==
    [][ /\ StepHasSucceeded => OneCallAfterRecording
        /\ ~StepHasSucceeded => reevaluations' = reevaluations ]_vars

\* C36, amended: an engine that was given an LM manager offering reevaluate_plan
\* invokes it exactly once after every successfully executed step, after the step
\* has been recorded, with an executed-steps list that ends with that step, and
\* at no other moment; an engine without one never invokes a re-plan.
C36_ReplanAfterSuccessWithLm ==
    [][ /\ (StepHasSucceeded /\ hasLlm) => OneCallAfterRecording
        /\ ~(StepHasSucceeded /\ hasLlm) => reevaluations' = reevaluations ]_vars

\* two steps succeeded and were re-planned and a third one failed: two calls in all
C36_Witness ==
    /\ hasLlm
    /\ pc = "done"
    /\ Len(reevaluations) = 2
    /\ Len(executed) = 2
    /\ \E i \in 1..Len(steps) : steps[i].status = FAILED

\* execute_plan is between its first and its last statement
PlanRunning == pc \in {"loop", "exec", "post"}

\* C37: during a plan the executed-steps list changes only by appending, at the
\* moment a step's execution has succeeded, the dictionary of that step with status
\* completed and its result; a failed step and a duplicate skip leave it as it is;
\* every entry has status completed; and execute_plan with a plan and reset leave
\* it empty whatever the plan before left in it.
C37_ExecutedStepsRecord ==
    [][ /\ StepHasSucceeded =>
              executed' = Append(executed, to_dict([steps[cur] EXCEPT !.status = COMPLETED]))
        /\ (PlanRunning /\ ~StepHasSucceeded) => executed' = executed
        /\ pc = "idle" => executed' = <<>>
        /\ \A k \in 1..Len(executed') : executed'[k].status = COMPLETED ]_vars

\* a plan has ended whose first step succeeded and whose second step was skipped
\* as a duplicate of it: one entry for two completed steps
C37_Witness ==
    /\ pc = "done"
    /\ Len(executed) = 1
    /\ Len(steps) = 2
    /\ steps[1].status = COMPLETED
    /\ executed[1].id = steps[1].id
    /\ steps[2].result = S("Step skipped to avoid duplication of previous step")

\* no PlanStep object was handed to the executor twice
DispatchedOnce ==
    \A i, j \in 1..Len(dispatched) : dispatched[i] = dispatched[j] => i = j

\* without an LM manager no re-plan adds steps: the executions are at most as many
\* as the plan has steps
ExecutionsBounded == ~hasLlm => Len(dispatched) <= Len(steps)

\* C38: execute_plan, once in its loop, eventually returns, whatever the tools and
\* the re-plan answer; no PlanStep object is dispatched to the executor twice; and
\* when no re-plan adds steps the loop makes at most as many step executions as
\* the plan has steps.
C38_ExecutePlanTerminates ==
    /\ [](DispatchedOnce /\ ExecutionsBounded)
    /\ (pc = "loop") ~> (pc = "done")

\* the two safety parts of C38 on their own
C38_DispatchBounds == DispatchedOnce /\ ExecutionsBounded

\* one pass over the original string: every token that names an executed step is
\* replaced by the text of that step's result, everything else is kept
RECURSIVE SinglePass(_, _)
SinglePass(toks, executed_steps) ==
    IF toks = <<>> THEN <<>>
    ELSE (IF Known(Head(toks), executed_steps)
          THEN ResultStr(executed_steps[Head(toks).n].result)
          ELSE <<Head(toks)>>)
         \o SinglePass(Tail(toks), executed_steps)

\* the string is a placeholder and nothing else: the result is returned as it is
WholeString(data) == Len(data.toks) = 1 /\ data.toks[1].k = "ph"

\* C39: substitution in a string is single-pass: only the placeholder tokens of the
\* original argument string are replaced, each by the result of its own step;
\* text introduced by a substituted result is never itself resolved, even when
\* it holds a token of the form {step_M_result}.
C39_SinglePass ==
    (pc = "resolved" /\ ~WholeString(sent.raw_args)) =>
        sent.tool_args = Str(SinglePass(sent.raw_args.toks, sent.executed))

\* C34: for every plan whose steps all carry an id, Plan.from_dict(plan.to_dict())
\* equals the plan: same id, goal, status and metadata, and the same steps in the
\* same order, equal field by field.
C34_RoundTrip ==
    pc = "restored" => lastCall.restored = lastCall.plan

\* the positions of the steps that name a tool the registry does not hold
Unregistered(plan_steps, reg_tools) ==
    {i \in 1..Len(plan_steps) :
        /\ plan_steps[i].tool_name # NoTool
        /\ \A j \in 1..Len(reg_tools) : reg_tools[j].name # plan_steps[i].tool_name}

\* the sequence lists exactly the tool names of these steps
ListsExactly(names, plan_steps, at) ==
    /\ {names[k] : k \in 1..Len(names)} = {plan_steps[i].tool_name : i \in at}
    /\ Len(names) = Cardinality(at)

\* C33: can_accomplish answers true if and only if no step of the plan it generated
\* names a tool that is absent from the registry; otherwise missing_tools lists
\* exactly the tool names of the steps whose tool is not registered; no step is
\* executed and no tool is invoked.
C33_CanAccomplish ==
    pc = "answered" =>
        /\ lastCall.can_accomplish <=> Unregistered(steps, registered) = {}
        /\ ListsExactly(lastCall.missing_tools, steps, Unregistered(steps, registered))
        /\ \A i \in 1..Len(steps) : steps[i].status = PENDING /\ steps[i].result = Null
        /\ dispatched = <<>> /\ events = <<>> /\ outcome = NoExecution

\* the plan has a step with a registered tool and a step with a tool that is not
\* registered: the answer is false and names the second tool only
C33_Witness ==
    /\ pc = "answered"
    /\ registered = AgentTools
    /\ Len(steps) = 2
    /\ steps[1].tool_name = "echo"
    /\ steps[2].tool_name = "ghost"
    /\ ~lastCall.can_accomplish
    /\ lastCall.missing_tools = <<"ghost">>

\* the reasoning of the plan's metadata names one of the deliberate-no-tool
\* phrases
NamesPhrase(reasoning) ==
    /\ reasoning.has
    /\ ~reasoning.none
    /\ \E phrase \in deliberate_phrases : Contains(phrase, Lower(reasoning.text))

\* C31: after a successful plan the response comes from the LM exactly when the
\* plan has a step with a tool_name or its reasoning names a deliberate-no-tool
\* phrase; in every other case it is the fixed generic message, and nothing
\* else (such as the result of a step without tool) decides it.
C31_SuccessResponsePolicy ==
    (pc = "responded" /\ lastCall.op = "success_response" /\ lastCall.by # "raised") =>
        IF tool_steps(lastCall.before) # <<>> \/ NamesPhrase(lastCall.reasoning)
        THEN lastCall.by = "lm" /\ lastCall.text = LmAnswer
        ELSE lastCall.by = "template" /\ lastCall.text = GenericMessage

\* C32: when execute_plan has returned false, the response is the LM's answer to
\* a prompt that explains the failure of the first FAILED step, and composing it
\* executes no step or tool, adds no step and changes no status.
C32_FailureResponseReportsOnly ==
    (pc = "responded" /\ lastCall.op = "failure_response") =>
        /\ steps = lastCall.before
        /\ lastCall.executed = 0
        /\ lastCall.calls = <<>>
        /\ first_failed_step(lastCall.before) # 0 =>
              /\ lastCall.by = "lm"
              /\ lastCall.prompt = FailurePrompt(lastCall.goal,
                                       lastCall.before[first_failed_step(lastCall.before)])
              /\ lastCall.text = LmAnswer

====
